---- MODULE Spec2Model ----
(***************************************************************************)
(* A model of the BfBB XBE linker: the section builder and map, the symbol  *)
(* resolver, the x86 relocation evaluator, the patch applicator, the        *)
(* driver (inject) and the XBE container codec.                             *)
(*                                                                         *)
(* Bytes are 0..255 and a 32-bit word is its four little-endian bytes, so   *)
(* that additions on stored words wrap modulo 2^32 exactly as u32 does.     *)
(* Addresses and offsets are integers. The link runs keep them far below    *)
(* 2^31; the runs of single relocations take them from the whole range of   *)
(* u32, an address of 2^31 or more being held as the i32 of the same bits.  *)
(***************************************************************************)
EXTENDS Integers, Sequences, FiniteSets, TLC

VARIABLES
    config,        \* Configuration {patches, modfiles}
    xbe,           \* Xbe: the section list of the image being built
    section_map,   \* SectionMap of the driver: output name -> SectionBuilder
    symbol_table,  \* SymbolTable: symbol name -> virtual address
    pc,            \* position of the driver (or of the codec run)
    cursor,        \* index of the next object / relocation / patch of the running phase
    err,           \* the error the run ended with (NoError while none)
    image,         \* codec: the bytes handed to Xbe::new
    raw,           \* codec: the raw::Xbe read from the bytes, later the one to write
    output,        \* codec: the bytes Xbe::serialize returned
    builder,       \* a SectionBuilder on its own
    log,           \* the calls made on the object on its own, with their arguments
    result         \* what the last of those calls returned

vars == <<config, xbe, section_map, symbol_table, pc, cursor, err, image, raw, output,
          builder, log, result>>

(***************************************************************************)
(* Little-endian 32-bit words                                              *)
(***************************************************************************)

Byte == 0..255

\* the four little-endian bytes of a non-negative value below 2^31
LEBytes(n) ==
    << n % 256, (n \div 256) % 256, (n \div 65536) % 256, (n \div 16777216) % 256 >>

\* `v as u32` written little-endian, for v an i32 (two's complement of a negative v)
ToLE32(v) ==
    IF v >= 0 THEN LEBytes(v)
    ELSE LET m == LEBytes(-(v + 1)) IN [i \in 1..4 |-> 255 - m[i]]

\* an addition of each byte on its own, without the carries
WrappingAdd_NoCarry(a, b) == [i \in 1..4 |-> (a[i] + b[i]) % 256]

\* u32::wrapping_add on two little-endian words
WrappingAdd(a, b) ==
    LET s1 == a[1] + b[1]
        s2 == a[2] + b[2] + (s1 \div 256)
        s3 == a[3] + b[3] + (s2 \div 256)
        s4 == a[4] + b[4] + (s3 \div 256)
    IN  << s1 % 256, s2 % 256, s3 % 256, s4 % 256 >>

\* u32 `+`: the sum of two words does not fit 32 bits (the carry out of the top byte)
AddOverflows(a, b) ==
    LET s1 == a[1] + b[1]
        s2 == a[2] + b[2] + (s1 \div 256)
        s3 == a[3] + b[3] + (s2 \div 256)
        s4 == a[4] + b[4] + (s3 \div 256)
    IN  s4 >= 256

\* the difference of two words modulo 2^32: a plus the two's complement of b
WrappingSub(a, b) ==
    WrappingAdd(a, WrappingAdd([i \in 1..4 |-> 255 - b[i]], <<1, 0, 0, 0>>))

\* i32 `-`: the difference of two words read as i32 does not fit an i32 (the signs of
\* the operands differ and the sign of the result is not the sign of a)
SubOverflows(a, b) ==
    /\ (a[4] >= 128) # (b[4] >= 128)
    /\ (WrappingSub(a, b)[4] >= 128) # (a[4] >= 128)

\* the word stored at 0-based byte position pos
ReadLE32(bytes, pos) == SubSeq(bytes, pos + 1, pos + 4)

\* bytes with the word w stored at 0-based byte position pos
WriteLE32(bytes, pos, w) ==
    [i \in 1..Len(bytes) |-> IF i > pos /\ i <= pos + 4 THEN w[i - pos] ELSE bytes[i]]

\* an error value: its kind, and the symbol and the number it names
Error(kind, symbol, number) == [kind |-> kind, symbol |-> symbol, number |-> number]
NoError == Error("", "", 0)

round_to_next(n, to) == n + ((to - (n % to)) % to)

(***************************************************************************)
(* Section builder                                                         *)
(***************************************************************************)

NoFiles == [f \in {} |-> 0]

SectionBuilderNew(name) ==
    [name |-> name, bytes |-> <<>>, file_offset_start |-> NoFiles, virtual_address |-> 0]

\* add_bytes recording the length after the block instead of the length before it
add_bytes_OffsetAfter(b, bytes, filename) ==
    IF filename \in DOMAIN b.file_offset_start
    THEN [panic |-> TRUE, builder |-> b]
    ELSE [panic |-> FALSE,
          builder |-> [b EXCEPT !.file_offset_start =
                                    @ @@ (filename :> Len(b.bytes) + Len(bytes)),
                                !.bytes = @ \o bytes]]

\* add_bytes: panics when the file has already contributed to this builder
add_bytes(b, bytes, filename) ==
    IF filename \in DOMAIN b.file_offset_start
    THEN [panic |-> TRUE, builder |-> b]
    ELSE [panic |-> FALSE,
          builder |-> [b EXCEPT !.file_offset_start = @ @@ (filename :> Len(b.bytes)),
                                !.bytes = @ \o bytes]]

\* relative_update_u32 without the file's start offset: the word at
\* file_section_address of the builder is updated
relative_update_u32_NoFileOffset(b, filename, file_section_address, value) ==
    IF filename \notin DOMAIN b.file_offset_start
    THEN [ok |-> FALSE, err |-> Error("SectionOffset", b.name, 0), builder |-> b]
    ELSE LET d_start == file_section_address IN
         IF d_start + 4 > Len(b.bytes)
         THEN [ok |-> FALSE, err |-> Error("UnexpectedEof", "", 0), builder |-> b]
         ELSE LET offset == ReadLE32(b.bytes, d_start) IN
              [ok |-> TRUE, err |-> NoError,
               builder |-> [b EXCEPT !.bytes = WriteLE32(@, d_start, WrappingAdd(value, offset))]]

\* relative_update_u32(filename, file_section_address, value); value is given as the
\* little-endian word of the u32
relative_update_u32(b, filename, file_section_address, value) ==
    IF filename \notin DOMAIN b.file_offset_start
    THEN [ok |-> FALSE, err |-> Error("SectionOffset", b.name, 0), builder |-> b]
    ELSE LET d_start == b.file_offset_start[filename] + file_section_address IN
         IF d_start + 4 > Len(b.bytes)
         THEN [ok |-> FALSE, err |-> Error("UnexpectedEof", "", 0), builder |-> b]
         ELSE LET offset == ReadLE32(b.bytes, d_start) IN
              [ok |-> TRUE, err |-> NoError,
               builder |-> [b EXCEPT !.bytes = WriteLE32(@, d_start, WrappingAdd(value, offset))]]

relative_update_i32(b, filename, file_section_address, value) ==
    relative_update_u32(b, filename, file_section_address, value)

(***************************************************************************)
(* XBE image: the section list and its address arithmetic                  *)
(***************************************************************************)

PRELOAD == 2
WRITABLE == 1
EXECUTABLE == 4

\* bitwise or of two flag sets that share no bit is their sum; PRELOAD | PRELOAD is PRELOAD
FlagsOr(a, b) == IF a = b THEN a ELSE a + b

get_next_virtual_address(x) ==
    IF Len(x.sections) = 0 THEN 0
    ELSE LET s == x.sections[Len(x.sections)] IN
         round_to_next(s.virtual_address + s.virtual_size, 32)

get_next_virtual_address_after(after) == round_to_next(after, 32)

\* the section that sorted_by(raw_address).last() yields: the sort is stable, so among
\* the sections of greatest raw_address it is the one listed last
LastByRawAddress(secs) ==
    CHOOSE i \in 1..Len(secs) :
        \A j \in 1..Len(secs) :
            \/ secs[j].raw_address < secs[i].raw_address
            \/ (secs[j].raw_address = secs[i].raw_address /\ j <= i)

add_section(x, name, flags, data, virtual_address, virtual_size) ==
    LET raw_address ==
            IF Len(x.sections) = 0 THEN 0
            ELSE LET a == x.sections[LastByRawAddress(x.sections)] IN
                 round_to_next(a.raw_address + a.virtual_size, 4096)
    IN  [x EXCEPT !.sections = Append(@,
            [name |-> name, flags |-> flags, data |-> data,
             virtual_address |-> virtual_address, virtual_size |-> virtual_size,
             raw_address |-> raw_address, digest |-> <<>>])]

\* the first section that holds the first byte of the range, whether or not it holds
\* the last
FindSection_StartOnly(x, start, end) ==
    LET hit == {i \in 1..Len(x.sections) :
                    /\ x.sections[i].virtual_address <= start
                    /\ x.sections[i].virtual_address + x.sections[i].virtual_size > start}
    IN  IF hit = {} THEN 0 ELSE CHOOSE i \in hit : \A j \in hit : i <= j

\* the section iter_mut().find() yields for a virtual range (0: none)
FindSection(x, start, end) ==
    LET hit == {i \in 1..Len(x.sections) :
                    /\ x.sections[i].virtual_address <= start
                    /\ x.sections[i].virtual_address + x.sections[i].virtual_size >= end}
    IN  IF hit = {} THEN 0 ELSE CHOOSE i \in hit : \A j \in hit : i <= j

\* get_bytes_mut(start..end): kind "none", or "some" with the section and the 0-based
\* offsets of the slice in its data, or "panic" when the slice is not inside the data
get_bytes_mut(x, start, end) ==
    LET i == FindSection(x, start, end) IN
    IF i = 0 THEN [kind |-> "none", section |-> 0, from |-> 0, to |-> 0]
    ELSE LET s == x.sections[i]
             a == start - s.virtual_address
             b == end - s.virtual_address
         IN  IF a > b \/ b > Len(s.data)
             THEN [kind |-> "panic", section |-> i, from |-> a, to |-> b]
             ELSE [kind |-> "some", section |-> i, from |-> a, to |-> b]

(***************************************************************************)
(* Section map                                                             *)
(***************************************************************************)

\* the output section names in ascending (byte-wise) order
OutputNames == << ".mbss", ".mdata", ".mrdata", ".mtext" >>

\* every section that is not .text, .bss or .rdata taken for data
MappedName_OthersAsData(section) ==
    CASE section = ".text"  -> ".mtext"
      [] section = ".bss"   -> ".mbss"
      [] section = ".rdata" -> ".mrdata"
      [] OTHER -> ".mdata"

\* input section name -> output section name ("" when the section is not merged)
MappedName(section) ==
    CASE section = ".text"  -> ".mtext"
      [] section = ".data"  -> ".mdata"
      [] section = ".bss"   -> ".mbss"
      [] section = ".rdata" -> ".mrdata"
      [] OTHER -> ""

EmptyMap == [n \in {} |-> SectionBuilderNew("")]

\* the per-file combined_bytes of from_data: output name -> the bytes of the file's
\* accepted, non-empty sections of that kind, in section order
RECURSIVE CombinedBytes(_, _, _)
CombinedBytes(secs, i, acc) ==
    IF i > Len(secs) THEN acc
    ELSE LET n == MappedName(secs[i].name) IN
         IF Len(secs[i].data) = 0 \/ n = ""
         THEN CombinedBytes(secs, i + 1, acc)
         ELSE CombinedBytes(secs, i + 1,
                  IF n \in DOMAIN acc THEN [acc EXCEPT ![n] = @ \o secs[i].data]
                  ELSE acc @@ (n :> secs[i].data))

\* one file of from_data: its combined bytes added to the builders (created on demand)
AddFile(m, file) ==
    LET cb == CombinedBytes(file.sections, 1, [n \in {} |-> <<>>])
        res == [n \in DOMAIN cb |->
                   add_bytes(IF n \in DOMAIN m.map THEN m.map[n] ELSE SectionBuilderNew(n),
                             cb[n], file.filename)]
    IN  [panic |-> m.panic \/ \E n \in DOMAIN cb : res[n].panic,
         map |-> [n \in DOMAIN m.map \cup DOMAIN cb |->
                     IF n \in DOMAIN cb THEN res[n].builder ELSE m.map[n]]]

RECURSIVE FromDataLoop(_, _, _)
FromDataLoop(files, i, m) ==
    IF i > Len(files) \/ m.panic THEN m
    ELSE FromDataLoop(files, i + 1, AddFile(m, files[i]))

\* SectionMap::from_data
from_data(files) == FromDataLoop(files, 1, [panic |-> FALSE, map |-> EmptyMap])

\* SectionMap::get / get_mut: the key of the builder of an input section ("" : None)
SectionMapGet(map, section) ==
    LET n == MappedName(section) IN
    IF n # "" /\ n \in DOMAIN map THEN n ELSE ""

\* the keys of a map in descending order of name
SortedByName_Descending(map) ==
    LET up == SelectSeq(OutputNames, LAMBDA n : n \in DOMAIN map) IN
    [i \in 1..Len(up) |-> up[Len(up) + 1 - i]]

\* the keys of a map in the order sorted_by(name) yields them
SortedByName(map) == SelectSeq(OutputNames, LAMBDA n : n \in DOMAIN map)

RECURSIVE AssignLoop(_, _, _, _)
AssignLoop(map, names, i, last_virtual_address) ==
    IF i > Len(names) THEN map
    ELSE AssignLoop([map EXCEPT ![names[i]].virtual_address = last_virtual_address],
                    names, i + 1,
                    get_next_virtual_address_after(
                        last_virtual_address + Len(map[names[i]].bytes)))

\* SectionMap::assign_addresses
assign_addresses(map, x) ==
    AssignLoop(map, SortedByName(map), 1, get_next_virtual_address(x))


\* the keys of a map in the order sorted_by(virtual_address) yields them
RECURSIVE SortedByAddress(_, _)
SortedByAddress(map, left) ==
    IF left = {} THEN <<>>
    ELSE LET n == CHOOSE k \in left :
                      \A j \in left : map[k].virtual_address <= map[j].virtual_address
         IN  <<n>> \o SortedByAddress(map, left \ {n})

\* the bytes of a builder name (ASCII)
NameBytes(n) ==
    CASE n = ".mtext"  -> << 46, 109, 116, 101, 120, 116 >>
      [] n = ".mdata"  -> << 46, 109, 100, 97, 116, 97 >>
      [] n = ".mbss"   -> << 46, 109, 98, 115, 115 >>
      [] n = ".mrdata" -> << 46, 109, 114, 100, 97, 116, 97 >>
      [] OTHER -> <<>>

\* every section that is not .mtext made writable
FinalizeFlags_OthersWritable(name) ==
    FlagsOr(PRELOAD, IF name = ".mtext" THEN EXECUTABLE ELSE WRITABLE)

FinalizeFlags(name) ==
    FlagsOr(PRELOAD,
            CASE name = ".mtext" -> EXECUTABLE
              [] name \in {".mdata", ".mbss"} -> WRITABLE
              [] OTHER -> PRELOAD)

RECURSIVE FinalizeLoop(_, _, _, _)
FinalizeLoop(map, names, i, x) ==
    IF i > Len(names) THEN x
    ELSE LET sec == map[names[i]] IN
         FinalizeLoop(map, names, i + 1,
             add_section(x, NameBytes(sec.name) \o <<0>>, FinalizeFlags(sec.name),
                         sec.bytes, sec.virtual_address, Len(sec.bytes)))

\* SectionMap::finalize
finalize(map, x) == FinalizeLoop(map, SortedByAddress(map, DOMAIN map), 1, x)

(***************************************************************************)
(* Relocation evaluator                                                    *)
(***************************************************************************)

IMAGE_REL_I386_DIR32 == 6
IMAGE_REL_I386_REL32 == 20

\* one of the `+` and `-` of the REL32 arm of RelocExt::perform leaves its type: the
\* two additions that give from_address (u32), or the subtraction
\* target_address as i32 - from_address as i32. A build with overflow checks panics
\* there; a build without them goes on with the wrapped value.
PerformOverflows(reloc, file, table, b) ==
    /\ reloc.symbol_table_index + 1 <= Len(file.symbols)
    /\ file.symbols[reloc.symbol_table_index + 1].name \in DOMAIN table
    /\ reloc.typ = IMAGE_REL_I386_REL32
    /\ file.filename \in DOMAIN b.file_offset_start
    /\ LET target_address == table[file.symbols[reloc.symbol_table_index + 1].name]
           sec_address == ToLE32(b.file_offset_start[file.filename] + reloc.virtual_address)
           placed == WrappingAdd(sec_address, ToLE32(b.virtual_address))
           from_address == WrappingAdd(placed, ToLE32(4))
       IN  \/ AddOverflows(sec_address, ToLE32(b.virtual_address))
           \/ AddOverflows(placed, ToLE32(4))
           \/ SubOverflows(ToLE32(target_address), from_address)

\* the match without its last arm: a relocation of any other type is performed as a
\* DIR32 one
PerformResolved_OthersAsDir32(reloc, file, symbol_name, target_address, b) ==
    IF reloc.typ = IMAGE_REL_I386_REL32
    THEN IF file.filename \notin DOMAIN b.file_offset_start
         THEN [ok |-> FALSE, err |-> Error("FileStartOffset", file.filename, 0), builder |-> b]
         ELSE LET sec_address == b.file_offset_start[file.filename] + reloc.virtual_address
                  from_address == WrappingAdd(WrappingAdd(ToLE32(sec_address),
                                                          ToLE32(b.virtual_address)),
                                              ToLE32(4))
              IN  relative_update_i32(b, file.filename, sec_address,
                                      WrappingSub(ToLE32(target_address), from_address))
    ELSE relative_update_u32(b, file.filename, reloc.virtual_address, ToLE32(target_address))

\* the match on the relocation type of RelocExt::perform, for a relocation whose
\* symbol has the address target_address (a u32 from 2^31 on is held as the i32 of
\* the same bits); the arithmetic is the wrapped one
PerformResolved(reloc, file, symbol_name, target_address, b) ==
    CASE reloc.typ = IMAGE_REL_I386_DIR32 ->
            relative_update_u32(b, file.filename, reloc.virtual_address,
                                ToLE32(target_address))
      [] reloc.typ = IMAGE_REL_I386_REL32 ->
            IF file.filename \notin DOMAIN b.file_offset_start
            THEN [ok |-> FALSE, err |-> Error("FileStartOffset", file.filename, 0), builder |-> b]
            ELSE LET sec_address == b.file_offset_start[file.filename] + reloc.virtual_address
                     from_address == WrappingAdd(WrappingAdd(ToLE32(sec_address),
                                                             ToLE32(b.virtual_address)),
                                                 ToLE32(4))
                 IN  relative_update_i32(b, file.filename, sec_address,
                                         WrappingSub(ToLE32(target_address), from_address))
      [] OTHER -> [ok |-> FALSE, err |-> Error("RelocationTypeNotSupported", symbol_name, reloc.typ),
                  builder |-> b]

\* perform passing over a relocation whose symbol has no address
perform_SkipUnresolved(reloc, file, table, b) ==
    IF reloc.symbol_table_index + 1 > Len(file.symbols)
    THEN [ok |-> FALSE, err |-> Error("SymbolIndex", "", reloc.symbol_table_index), builder |-> b]
    ELSE
    LET symbol_name == file.symbols[reloc.symbol_table_index + 1].name IN
    IF symbol_name \notin DOMAIN table
    THEN [ok |-> TRUE, err |-> NoError, builder |-> b]
    ELSE PerformResolved(reloc, file, symbol_name, table[symbol_name], b)

\* RelocExt::perform on one relocation of `file`, against the builder b
perform(reloc, file, table, b) ==
    IF reloc.symbol_table_index + 1 > Len(file.symbols)
    THEN [ok |-> FALSE, err |-> Error("SymbolIndex", "", reloc.symbol_table_index), builder |-> b]
    ELSE
    LET symbol_name == file.symbols[reloc.symbol_table_index + 1].name IN
    IF symbol_name \notin DOMAIN table
    THEN [ok |-> FALSE, err |-> Error("SymbolAddress", symbol_name, 0), builder |-> b]
    ELSE PerformResolved(reloc, file, symbol_name, table[symbol_name], b)

\* the relocations process_relocations visits, in its order: for each file, for each
\* section that has a builder in the map, each relocation of the section
RECURSIVE SectionRelocs(_, _, _, _)
SectionRelocs(map, f, file, j) ==
    IF j > Len(file.sections) THEN <<>>
    ELSE LET key == SectionMapGet(map, file.sections[j].name) IN
         (IF key = "" THEN <<>>
          ELSE [k \in 1..Len(file.sections[j].relocs) |->
                   [file |-> f, section |-> j, key |-> key,
                    reloc |-> file.sections[j].relocs[k]]])
         \o SectionRelocs(map, f, file, j + 1)

RECURSIVE RelocWork(_, _, _)
RelocWork(map, files, f) ==
    IF f > Len(files) THEN <<>>
    ELSE SectionRelocs(map, f, files[f], 1) \o RelocWork(map, files, f + 1)

\* one relocation of the work list applied to the map
PerformItem(map, table, files, item) ==
    LET r == perform(item.reloc, files[item.file], table, map[item.key]) IN
    [ok |-> r.ok, err |-> r.err, map |-> [map EXCEPT ![item.key] = r.builder]]

RECURSIVE RelocLoop(_, _, _, _, _)
RelocLoop(map, table, files, work, i) ==
    IF i > Len(work) THEN [ok |-> TRUE, err |-> NoError, map |-> map]
    ELSE LET r == PerformItem(map, table, files, work[i]) IN
         IF r.ok THEN RelocLoop(r.map, table, files, work, i + 1) ELSE r

\* SectionMap::process_relocations
process_relocations(map, table, files) ==
    RelocLoop(map, table, files, RelocWork(map, files, 1), 1)


(***************************************************************************)
(* Symbol resolver                                                         *)
(***************************************************************************)

IMAGE_SYM_CLASS_EXTERNAL == 2
IMAGE_SYM_CLASS_STATIC == 3
IMAGE_SYM_CLASS_FUNCTION == 101
IMAGE_SYM_CLASS_FILE == 103
\* the symbol type of a function (0x20)
SYM_TYPE_FUNCTION == 32

NoSymbols == [n \in {} |-> 0]

\* HashMap::insert: a later insertion of a name replaces the earlier one
Insert(table, name, address) ==
    [n \in DOMAIN table \cup {name} |-> IF n = name THEN address ELSE table[n]]

\* config.patches.iter().find(|p| p.start_symbol_name == sym_name): its index, or 0
FindPatch(cfg, sym_name) ==
    LET hit == {i \in 1..Len(cfg.patches) : cfg.patches[i].start_symbol_name = sym_name}
    IN  IF hit = {} THEN 0 ELSE CHOOSE i \in hit : \A j \in hit : i <= j

\* the address of a STATIC symbol with symbol.value added
StaticAddress_WithValue(addr, sym, sec_data) == addr + sym.value + sec_data.virtual_address

\* the address of a STATIC symbol: the start of the object's bytes in the builder
StaticAddress(addr, sym, sec_data) == addr + sec_data.virtual_address

\* the body of the loop of extract_symbols for one symbol
ExtractSymbol(table, map, obj, cfg, sym) ==
    IF sym.section_number \in {0, -1, -2}
    THEN [kind |-> "ok", table |-> table]
    ELSE IF sym.section_number < 1 \/ sym.section_number > Len(obj.sections)
    THEN [kind |-> "panic", table |-> table]
    ELSE
    LET key == SectionMapGet(map, obj.sections[sym.section_number].name) IN
    IF key = "" THEN [kind |-> "ok", table |-> table]
    ELSE
    LET sec_data == map[key]
        contributes == obj.filename \in DOMAIN sec_data.file_offset_start
        addr == sec_data.file_offset_start[obj.filename]
        patch == FindPatch(cfg, sym.name)
    IN
    CASE \/ (sym.storage_class = IMAGE_SYM_CLASS_EXTERNAL /\ sym.typ = SYM_TYPE_FUNCTION)
         \/ sym.storage_class = IMAGE_SYM_CLASS_FUNCTION ->
            IF contributes
            THEN [kind |-> "ok",
                  table |-> Insert(table, sym.name, addr + sym.value + sec_data.virtual_address)]
            ELSE IF patch # 0
            THEN [kind |-> "ok",
                  table |-> Insert(table, sym.name, cfg.patches[patch].virtual_address)]
            ELSE [kind |-> "ok", table |-> table]
      [] sym.storage_class = IMAGE_SYM_CLASS_EXTERNAL ->
            IF contributes
            THEN [kind |-> "ok",
                  table |-> Insert(table, sym.name, addr + sym.value + sec_data.virtual_address)]
            ELSE [kind |-> "ok", table |-> table]
      [] sym.storage_class = IMAGE_SYM_CLASS_STATIC ->
            IF contributes
            THEN [kind |-> "ok",
                  table |-> Insert(table, sym.name, StaticAddress(addr, sym, sec_data))]
            ELSE [kind |-> "ok", table |-> table]
      [] sym.storage_class = IMAGE_SYM_CLASS_FILE -> [kind |-> "ok", table |-> table]
      [] OTHER -> [kind |-> "err", table |-> table]

ExtractError(r, obj) ==
    CASE r.kind = "ok" -> NoError
      [] r.kind = "err" -> Error("storage_class not implemented", obj.filename, 0)
      [] OTHER -> Error("No section for section number", obj.filename, 0)

RECURSIVE ExtractLoop(_, _, _, _, _)
ExtractLoop(table, map, obj, cfg, i) ==
    IF i > Len(obj.symbols) THEN [kind |-> "ok", table |-> table]
    ELSE LET r == ExtractSymbol(table, map, obj, cfg, obj.symbols[i]) IN
         IF r.kind = "ok" THEN ExtractLoop(r.table, map, obj, cfg, i + 1) ELSE r

\* SymbolTable::extract_symbols for one object
extract_symbols(table, map, obj, cfg) == ExtractLoop(table, map, obj, cfg, 1)

\* the objects walked in the other order: the mods, then the patch objects
SymbolObjects_ModsFirst(cfg) ==
    cfg.modfiles \o [i \in 1..Len(cfg.patches) |-> cfg.patches[i].patchfile]

\* the objects SymbolTable::new walks, in its order: the patch objects, then the mods
SymbolObjects(cfg) ==
    [i \in 1..Len(cfg.patches) |-> cfg.patches[i].patchfile] \o cfg.modfiles

(***************************************************************************)
(* Patch applicator                                                        *)
(***************************************************************************)

\* Patch::find_symbol: the index of the first symbol of that name, or 0
find_symbol(patch, name) ==
    LET syms == patch.patchfile.symbols
        hit == {i \in 1..Len(syms) : syms[i].name = name}
    IN  IF hit = {} THEN 0 ELSE CHOOSE i \in hit : \A j \in hit : i <= j

\* the check left out: any two symbols pass
SameSection_Unchecked(start_symbol, end_symbol) == TRUE

\* the check of Patch::apply that both symbols lie in one section
SameSection(start_symbol, end_symbol) ==
    start_symbol.section_number = end_symbol.section_number

\* the length of the window Patch::apply asks get_bytes_mut for
PatchWindow == 5

\* the patch bytes written at the start of the host section instead of at the window
WriteWindow_AtSectionStart(x, w, patch_bytes) ==
    LET n == IF Len(patch_bytes) <= w.to - w.from THEN Len(patch_bytes) ELSE w.to - w.from IN
    [x EXCEPT !.sections[w.section].data =
        [i \in 1..Len(@) |-> IF i <= n THEN patch_bytes[i] ELSE @[i]]]

\* Cursor::new(xbe_bytes).write_all(patch_bytes): the bytes that fit the window are
\* written; write_all fails (and expect panics) when some do not fit
WriteWindow(x, w, patch_bytes) ==
    LET n == IF Len(patch_bytes) <= w.to - w.from THEN Len(patch_bytes) ELSE w.to - w.from IN
    [x EXCEPT !.sections[w.section].data =
        [i \in 1..Len(@) |->
            IF i > w.from /\ i <= w.from + n THEN patch_bytes[i - w.from] ELSE @[i]]]

\* Patch::apply: kind "ok", "err" (with the error) or "panic", and the image it leaves
apply(patch, x, table) ==
    LET si == find_symbol(patch, patch.start_symbol_name)
        ei == find_symbol(patch, patch.end_symbol_name)
    IN
    IF si = 0 \/ ei = 0
    THEN [kind |-> "err", xbe |-> x,
          err |-> Error("UndefinedSymbol",
                        IF si = 0 THEN patch.start_symbol_name ELSE patch.end_symbol_name, 0)]
    ELSE
    LET start_symbol == patch.patchfile.symbols[si]
        end_symbol == patch.patchfile.symbols[ei]
    IN
    IF ~SameSection(start_symbol, end_symbol)
    THEN [kind |-> "err", err |-> Error("SectionMismatch", patch.start_symbol_name, 0), xbe |-> x]
    ELSE IF \/ start_symbol.section_number < 1
            \/ start_symbol.section_number > Len(patch.patchfile.sections)
    THEN [kind |-> "panic", err |-> Error("unwrap on None", "", 0), xbe |-> x]
    ELSE
    LET sec_name == patch.patchfile.sections[start_symbol.section_number].name
        built == from_data(<<patch.patchfile>>).map
        key == SectionMapGet(built, sec_name)
    IN
    IF key = "" THEN [kind |-> "err", err |-> Error("MissingSection", sec_name, 0), xbe |-> x]
    ELSE
    LET placed == [built EXCEPT ![key].virtual_address = patch.virtual_address]
        rel == process_relocations(placed, table, <<patch.patchfile>>)
    IN
    IF ~rel.ok THEN [kind |-> "err", err |-> rel.err, xbe |-> x]
    ELSE
    LET w == get_bytes_mut(x, patch.virtual_address, patch.virtual_address + PatchWindow) IN
    IF w.kind = "none"
    THEN [kind |-> "err", err |-> Error("InvalidAddress", "", patch.virtual_address), xbe |-> x]
    ELSE IF w.kind = "panic"
    THEN [kind |-> "panic", err |-> Error("slice out of range", "", 0), xbe |-> x]
    ELSE IF \/ start_symbol.value > end_symbol.value
            \/ end_symbol.value > Len(rel.map[key].bytes)
    THEN [kind |-> "panic", err |-> Error("slice out of range", "", 0), xbe |-> x]
    ELSE
    LET patch_bytes == SubSeq(rel.map[key].bytes, start_symbol.value + 1, end_symbol.value) IN
    IF Len(patch_bytes) > w.to - w.from
    THEN [kind |-> "panic", err |-> Error("Failed to apply patch", "", 0),
          xbe |-> WriteWindow(x, w, patch_bytes)]
    ELSE [kind |-> "ok", err |-> NoError, xbe |-> WriteWindow(x, w, patch_bytes)]


(***************************************************************************)
(* Inputs: COFF objects, configurations and base images                    *)
(***************************************************************************)

\* the most mod files and patches a configuration lists
MaxMods == 2
MaxPatches == 1
\* the longest patch, in bytes (end_symbol.value - start_symbol.value)
MaxPatchLen == 6

Sym(name, value, section_number, storage_class, typ) ==
    [name |-> name, value |-> value, section_number |-> section_number,
     storage_class |-> storage_class, typ |-> typ]

Rel(virtual_address, symbol_table_index, typ) ==
    [virtual_address |-> virtual_address, symbol_table_index |-> symbol_table_index,
     typ |-> typ]

Sec(name, data, relocs) == [name |-> name, data |-> data, relocs |-> relocs]

RelocTypes == {IMAGE_REL_I386_DIR32, IMAGE_REL_I386_REL32}

\* a.o: 8 bytes of .text with one relocation at offset 0 against its own STATIC
\* symbol "loc"; defines the function "fa" at offset 4; carries a .drectve section
\* with a relocation that names no symbol of the object
ModA(typ) ==
    [filename |-> "a.o",
     sections |-> << Sec(".text", <<16, 0, 0, 0, 195, 144, 144, 144>>, << Rel(0, 1, typ) >>),
                     Sec(".drectve", <<32, 47>>, << Rel(0, 7, IMAGE_REL_I386_DIR32) >>) >>,
     symbols |-> << Sym("fa", 4, 1, IMAGE_SYM_CLASS_EXTERNAL, SYM_TYPE_FUNCTION),
                    Sym("loc", 0, 1, IMAGE_SYM_CLASS_STATIC, 0),
                    Sym("a.c", 0, -2, IMAGE_SYM_CLASS_FILE, 0) >>]

\* b.o: 8 bytes of .text with one relocation at offset 0 against "fa" (defined by
\* a.o), the stored addend being -4; defines "fb" and its own STATIC "loc"
ModB(typ) ==
    [filename |-> "b.o",
     sections |-> << Sec(".text", <<252, 255, 255, 255, 195, 144, 144, 144>>,
                         << Rel(0, 2, typ) >>) >>,
     symbols |-> << Sym("fb", 0, 1, IMAGE_SYM_CLASS_EXTERNAL, SYM_TYPE_FUNCTION),
                    Sym("loc", 4, 1, IMAGE_SYM_CLASS_STATIC, 0),
                    Sym("fa", 0, 0, IMAGE_SYM_CLASS_EXTERNAL, SYM_TYPE_FUNCTION) >>]

\* c.o: 4 bytes of .text that define the function "start", the name of the patches'
\* start symbol, and a .data section of size zero
ModC ==
    [filename |-> "c.o",
     sections |-> << Sec(".text", <<204, 204, 204, 195>>, <<>>),
                     Sec(".data", <<>>, <<>>) >>,
     symbols |-> << Sym("start", 2, 1, IMAGE_SYM_CLASS_EXTERNAL, SYM_TYPE_FUNCTION) >>]

\* d.o: 4 bytes of .data holding the address of "start", and 2 bytes of .rdata;
\* defines the variable "v"
ModD ==
    [filename |-> "d.o",
     sections |-> << Sec(".data", <<1, 0, 0, 0>>, << Rel(0, 1, IMAGE_REL_I386_DIR32) >>),
                     Sec(".rdata", <<37, 100>>, <<>>) >>,
     symbols |-> << Sym("v", 0, 1, IMAGE_SYM_CLASS_EXTERNAL, 0),
                    Sym("start", 0, 0, IMAGE_SYM_CLASS_EXTERNAL, SYM_TYPE_FUNCTION) >>]

ModPool == {ModA(t) : t \in RelocTypes} \cup {ModB(t) : t \in RelocTypes} \cup {ModC, ModD}

\* the sequences of at most n objects of a pool, no file listed twice
RECURSIVE FileLists(_, _)
FileLists(pool, n) ==
    IF n = 0 THEN {<<>>}
    ELSE LET shorter == FileLists(pool, n - 1) IN
         shorter \cup
         {Append(l, o) : l \in {k \in shorter : Len(k) = n - 1},
                         o \in {q \in pool : TRUE}}

DistinctFiles(l) == \A i, j \in 1..Len(l) : l[i].filename = l[j].filename => i = j

ModLists == {l \in FileLists(ModPool, MaxMods) : DistinctFiles(l)}

\* p.o: a patch object. Its .text holds `jmp rel32` (and filler up to 8 bytes), with
\* or without the REL32 relocation of the jump against "fa"; "start" is at offset 0 and
\* "end" at offset len, in section end_section
PatchObject(len, end_section, with_reloc) ==
    [filename |-> "p.o",
     sections |-> << Sec(".text", <<233, 0, 0, 0, 0, 144, 144, 144>>,
                         IF with_reloc THEN << Rel(1, 2, IMAGE_REL_I386_REL32) >> ELSE <<>>),
                     Sec(".data", <<7, 7, 7, 7, 7, 7, 7, 7>>, <<>>) >>,
     symbols |-> << Sym("start", 0, 1, IMAGE_SYM_CLASS_EXTERNAL, SYM_TYPE_FUNCTION),
                    Sym("end", len, end_section, IMAGE_SYM_CLASS_EXTERNAL, SYM_TYPE_FUNCTION),
                    Sym("fa", 0, 0, IMAGE_SYM_CLASS_EXTERNAL, SYM_TYPE_FUNCTION) >>]

\* the configured addresses: inside the base image's .text, less than a window before
\* its end, and outside every section
PatchAddresses == {36, 44, 200}

PatchPool ==
    {[patchfile |-> PatchObject(len, es, wr), start_symbol_name |-> "start",
      end_symbol_name |-> "end", virtual_address |-> va] :
        len \in (MaxPatchLen - 1)..MaxPatchLen, es \in {1, 2}, wr \in BOOLEAN,
        va \in PatchAddresses}

PatchLists == FileLists(PatchPool, MaxPatches)

Configs == {[patches |-> p, modfiles |-> m] : p \in PatchLists, m \in ModLists}

BaseSection(name, virtual_address, data, raw_address) ==
    [name |-> name, flags |-> PRELOAD, data |-> data,
     virtual_address |-> virtual_address, virtual_size |-> Len(data),
     raw_address |-> raw_address, digest |-> <<1, 2, 3>>]

BaseText == BaseSection(<<46, 116, 101, 120, 116, 0>>, 32,
                        <<85, 137, 229, 131, 236, 8, 144, 144, 144, 144, 144, 144, 144, 144, 201, 195>>,
                        4096)
BaseData == BaseSection(<<46, 100, 97, 116, 97, 0>>, 64, <<0, 1, 2, 3, 4, 5, 6, 7>>, 8192)

\* the base images: the section headers of an XBE may list the sections in any order,
\* and an image may have no section at all
BaseImages ==
    { [sections |-> <<BaseText, BaseData>>], [sections |-> <<BaseData, BaseText>>],
      [sections |-> <<>>] }

(***************************************************************************)
(* The driver: inject                                                      *)
(***************************************************************************)

Init ==
    /\ config \in Configs
    /\ xbe \in BaseImages
    /\ section_map = EmptyMap
    /\ symbol_table = NoSymbols
    /\ pc = "combine"
    /\ cursor = 1
    /\ err = NoError
    /\ image = <<>>
    /\ raw = <<>>
    /\ output = <<>>
    /\ builder = <<>>
    /\ log = <<>>
    /\ result = <<>>

\* combine sections: SectionMap::from_data(&config.modfiles)
FromData ==
    /\ pc = "combine"
    /\ LET r == from_data(config.modfiles) IN
       /\ section_map' = r.map
       /\ pc' = IF r.panic THEN "panicked" ELSE "assign"
       /\ err' = IF r.panic THEN Error("add_bytes twice", "", 0) ELSE err
    /\ UNCHANGED <<config, xbe, symbol_table, cursor, image, raw, output,
                 builder, log, result>>

\* assign virtual addresses
AssignAddresses ==
    /\ pc = "assign"
    /\ section_map' = assign_addresses(section_map, xbe)
    /\ pc' = "symbols"
    /\ cursor' = 1
    /\ UNCHANGED <<config, xbe, symbol_table, err, image, raw, output,
                 builder, log, result>>

\* build the symbol table: one object of SymbolTable::new per step
ExtractSymbols ==
    /\ pc = "symbols"
    /\ IF cursor > Len(SymbolObjects(config))
       THEN /\ pc' = "relocate"
            /\ cursor' = 1
            /\ UNCHANGED <<symbol_table, err>>
       ELSE LET r == extract_symbols(symbol_table, section_map,
                                     SymbolObjects(config)[cursor], config) IN
            /\ symbol_table' = r.table
            /\ pc' = CASE r.kind = "ok" -> pc [] r.kind = "err" -> "failed" [] OTHER -> "panicked"
            /\ err' = ExtractError(r, SymbolObjects(config)[cursor])
            /\ cursor' = cursor + 1
    /\ UNCHANGED <<config, xbe, section_map, image, raw, output,
                 builder, log, result>>

\* the relocations of the mod files, in the order process_relocations visits them
ModWork == RelocWork(section_map, config.modfiles, 1)

\* process relocations for mods: one relocation per step
Perform ==
    /\ pc = "relocate"
    /\ IF cursor > Len(ModWork)
       THEN /\ pc' = "patch"
            /\ cursor' = 1
            /\ UNCHANGED <<section_map, err>>
       ELSE LET item == ModWork[cursor]
                r == PerformItem(section_map, symbol_table, config.modfiles, item)
            IN  \E overflow_checks \in
                       IF PerformOverflows(item.reloc, config.modfiles[item.file],
                                           symbol_table, section_map[item.key])
                       THEN BOOLEAN ELSE {FALSE} :
                    /\ section_map' = IF overflow_checks THEN section_map ELSE r.map
                    /\ pc' = CASE overflow_checks -> "panicked" [] r.ok -> pc [] OTHER -> "failed"
                    /\ err' = IF overflow_checks
                              THEN Error("arithmetic overflow", "", 0) ELSE r.err
                    /\ cursor' = cursor + 1
    /\ UNCHANGED <<config, xbe, symbol_table, image, raw, output,
                 builder, log, result>>

\* apply patches: one patch per step
PatchApply ==
    /\ pc = "patch"
    /\ IF cursor > Len(config.patches)
       THEN /\ pc' = "finalize"
            /\ cursor' = 1
            /\ UNCHANGED <<xbe, err>>
       ELSE LET r == apply(config.patches[cursor], xbe, symbol_table) IN
            /\ xbe' = r.xbe
            /\ pc' = CASE r.kind = "ok" -> pc [] r.kind = "err" -> "failed" [] OTHER -> "panicked"
            /\ err' = r.err
            /\ cursor' = cursor + 1
    /\ UNCHANGED <<config, section_map, symbol_table, image, raw, output,
                 builder, log, result>>

\* insert sections into the XBE
Finalize ==
    /\ pc = "finalize"
    /\ xbe' = finalize(section_map, xbe)
    /\ pc' = "done"
    /\ UNCHANGED <<config, section_map, symbol_table, cursor, err, image, raw, output,
                 builder, log, result>>

Next == FromData \/ AssignAddresses \/ ExtractSymbols \/ Perform \/ PatchApply \/ Finalize

Spec == Init /\ [][Next]_vars

(***************************************************************************)
(* Relocations of the mod objects                                          *)
(***************************************************************************)

\* the driver is about to perform a relocation of a mod object
RelocCase == pc = "relocate" /\ cursor <= Len(ModWork)

\* that relocation, the object it belongs to and the symbol it names
Item == ModWork[cursor]
ItemFile == config.modfiles[Item.file]
ItemSymbol == ItemFile.symbols[Item.reloc.symbol_table_index + 1]
\* F: where the object's section begins in its builder; R: the offset of the relocation
ItemF == section_map[Item.key].file_offset_start[ItemFile.filename]
ItemR == Item.reloc.virtual_address

\* the relocation has a symbol, the symbol has an address, and the four bytes at
\* F + R lie inside the builder
ItemResolved ==
    /\ Item.reloc.symbol_table_index + 1 <= Len(ItemFile.symbols)
    /\ ItemSymbol.name \in DOMAIN symbol_table
    /\ ItemFile.filename \in DOMAIN section_map[Item.key].file_offset_start
    /\ ItemF + ItemR + 4 <= Len(section_map[Item.key].bytes)

\* the relocation performed last
Done == ModWork[cursor - 1]
DoneF == section_map[Done.key].file_offset_start[config.modfiles[Done.file].filename]

\* C2: a REL32 relocation at offset R of a mod object whose section begins at F in a
\* builder placed at VA, against a symbol resolved to S, stores
\* (S - (VA + F + R + 4)) wrapping-plus the old word at builder position F + R, also
\* when F > 0.
C2_Rel32AtFPlusR ==
    [][ (RelocCase /\ Item.reloc.typ = IMAGE_REL_I386_REL32 /\ ItemResolved) =>
          LET B == section_map[Item.key]
              S == symbol_table[ItemSymbol.name]
              A == ReadLE32(B.bytes, ItemF + ItemR)
              X == ToLE32(S - (B.virtual_address + ItemF + ItemR + 4))
          IN  /\ pc' = "relocate"
              /\ ReadLE32(section_map'[Item.key].bytes, ItemF + ItemR) = WrappingAdd(X, A)
      ]_vars

\* C3: a DIR32 relocation at offset R of a mod object whose section begins at F in
\* its builder, against a symbol resolved to S, stores S wrapping-plus the old word at
\* builder position F + R.
C3_Dir32AtFPlusR ==
    [][ (RelocCase /\ Item.reloc.typ = IMAGE_REL_I386_DIR32 /\ ItemResolved) =>
          LET B == section_map[Item.key]
              S == symbol_table[ItemSymbol.name]
              A == ReadLE32(B.bytes, ItemF + ItemR)
          IN  /\ pc' = "relocate"
              /\ ReadLE32(section_map'[Item.key].bytes, ItemF + ItemR)
                     = WrappingAdd(ToLE32(S), A)
      ]_vars

\* a DIR32 relocation of an object that is not the first of its builder was performed
C3_Witness ==
    /\ pc = "relocate" /\ cursor > 1
    /\ Done.reloc.typ = IMAGE_REL_I386_DIR32
    /\ DoneF > 0
    /\ ReadLE32(section_map[Done.key].bytes, DoneF + Done.reloc.virtual_address)
           # <<0, 0, 0, 0>>

\* the section of the relocation's own object in which its symbol is defined, and the
\* builder of that section
ItemSymbolSection == ItemFile.sections[ItemSymbol.section_number]
ItemSymbolKey == SectionMapGet(section_map, ItemSymbolSection.name)

\* C6: a REL32 relocation of a mod object against a STATIC symbol that the same object
\* defines stores S - (siteVA + 4) wrapping-plus the old word at the relocation site,
\* S being the start of that object's own section in its builder
\* (file_offset_start[object] + builder.virtual_address), whatever the other mod files
\* define.
C6_StaticOfSameObject ==
    [][ ( /\ RelocCase /\ Item.reloc.typ = IMAGE_REL_I386_REL32 /\ ItemResolved
          /\ ItemSymbol.storage_class = IMAGE_SYM_CLASS_STATIC
          /\ ItemSymbol.section_number \in 1..Len(ItemFile.sections)
          /\ ItemSymbolKey # ""
          /\ ItemFile.filename \in DOMAIN section_map[ItemSymbolKey].file_offset_start ) =>
          LET B == section_map[Item.key]
              T == section_map[ItemSymbolKey]
              S == T.file_offset_start[ItemFile.filename] + T.virtual_address
              siteVA == B.virtual_address + ItemF + ItemR
              A == ReadLE32(B.bytes, ItemF + ItemR)
          IN  /\ pc' = "relocate"
              /\ ReadLE32(section_map'[Item.key].bytes, ItemF + ItemR)
                     = WrappingAdd(ToLE32(S - (siteVA + 4)), A)
      ]_vars

(***************************************************************************)
(* The symbol table the driver builds                                      *)
(***************************************************************************)

\* the symbol table is complete
SymbolsBuilt == pc \in {"relocate", "patch", "finalize", "done"}

\* symbol i of obj defines an EXTERNAL symbol named n in one of obj's sections
DefinesExternal(obj, i, n) ==
    /\ obj.symbols[i].name = n
    /\ obj.symbols[i].storage_class = IMAGE_SYM_CLASS_EXTERNAL
    /\ obj.symbols[i].section_number \in 1..Len(obj.sections)

\* the address that symbol i of the mod object obj has in the linked image
ModAddress(obj, i) ==
    LET sym == obj.symbols[i]
        b == section_map[SectionMapGet(section_map, obj.sections[sym.section_number].name)]
    IN  b.file_offset_start[obj.filename] + sym.value + b.virtual_address

\* symbol i of the mod object obj defines n as an EXTERNAL symbol in a section that
\* obj contributes to a builder
ModDefines(obj, i, n) ==
    /\ DefinesExternal(obj, i, n)
    /\ LET key == SectionMapGet(section_map, obj.sections[obj.symbols[i].section_number].name)
       IN  /\ key # ""
           /\ obj.filename \in DOMAIN section_map[key].file_offset_start

\* the addresses that the mod objects' definitions of n have in the linked image
ModAddresses(n) ==
    UNION { { ModAddress(config.modfiles[j], i) :
                i \in { k \in 1..Len(config.modfiles[j].symbols) :
                          ModDefines(config.modfiles[j], k, n) } } :
            j \in 1..Len(config.modfiles) }

\* the names that some patch object defines as an EXTERNAL symbol
PatchDefined ==
    UNION { { config.patches[j].patchfile.symbols[i].name :
                i \in { k \in 1..Len(config.patches[j].patchfile.symbols) :
                          DefinesExternal(config.patches[j].patchfile, k,
                                          config.patches[j].patchfile.symbols[k].name) } } :
            j \in 1..Len(config.patches) }

\* C7: a name that a patch object and a mod object both define as an EXTERNAL symbol
\* is mapped by the symbol table to the address of the mod's definition.
C7_ModOverPatch ==
    SymbolsBuilt =>
        \A n \in PatchDefined :
            ModAddresses(n) # {} =>
                n \in DOMAIN symbol_table /\ symbol_table[n] \in ModAddresses(n)

\* the table is built for a configuration in which a patch and a mod define the same
\* name, and the patch's configured address differs from the mod's
C7_Witness ==
    /\ SymbolsBuilt
    /\ \E n \in PatchDefined :
          /\ ModAddresses(n) # {}
          /\ FindPatch(config, n) # 0
          /\ config.patches[FindPatch(config, n)].virtual_address \notin ModAddresses(n)
          /\ symbol_table[n] \in ModAddresses(n)

\* C8: the start symbol of a patch, defined in the patch object as an EXTERNAL
\* function symbol, is mapped to the patch's configured virtual_address when the patch
\* object contributes to no builder and no mod defines the name, whatever sections the
\* mod files contain.
C8_PatchStartAddress ==
    SymbolsBuilt =>
        \A i \in 1..Len(config.patches) :
            LET p == config.patches[i]
                n == p.start_symbol_name
                si == find_symbol(p, n)
            IN  ( /\ si # 0
                  /\ DefinesExternal(p.patchfile, si, n)
                  /\ p.patchfile.symbols[si].typ = SYM_TYPE_FUNCTION
                  /\ FindPatch(config, n) = i
                  /\ \A k \in DOMAIN section_map :
                        p.patchfile.filename \notin DOMAIN section_map[k].file_offset_start
                  /\ \A j \in 1..Len(config.modfiles) :
                        \A k \in 1..Len(config.modfiles[j].symbols) :
                            config.modfiles[j].symbols[k].name = n =>
                                config.modfiles[j].symbols[k].section_number < 1 )
                => (n \in DOMAIN symbol_table /\ symbol_table[n] = p.virtual_address)

(***************************************************************************)
(* Patches                                                                 *)
(***************************************************************************)

\* the driver is about to apply a patch
PatchCase == pc = "patch" /\ cursor <= Len(config.patches)
ThePatch == config.patches[cursor]
TheStart == ThePatch.patchfile.symbols[find_symbol(ThePatch, ThePatch.start_symbol_name)]
TheEnd == ThePatch.patchfile.symbols[find_symbol(ThePatch, ThePatch.end_symbol_name)]

\* both symbols of the patch exist
SymbolsFound ==
    /\ find_symbol(ThePatch, ThePatch.start_symbol_name) # 0
    /\ find_symbol(ThePatch, ThePatch.end_symbol_name) # 0

\* the patch's own section map, placed at the configured address and relocated
TheKey == SectionMapGet(from_data(<<ThePatch.patchfile>>).map,
                        ThePatch.patchfile.sections[TheStart.section_number].name)
TheRelocated ==
    process_relocations(
        [from_data(<<ThePatch.patchfile>>).map EXCEPT
            ![TheKey].virtual_address = ThePatch.virtual_address],
        symbol_table, <<ThePatch.patchfile>>)

\* the symbols and the relocations of the patch are valid: both symbols exist, in one
\* merged section of the patch object, [start.value, end.value) lies in the section,
\* and every relocation of the patch object resolves
PatchValid ==
    /\ SymbolsFound
    /\ TheStart.section_number = TheEnd.section_number
    /\ TheStart.section_number \in 1..Len(ThePatch.patchfile.sections)
    /\ TheKey # ""
    /\ TheStart.value <= TheEnd.value
    /\ TheEnd.value <= Len(ThePatch.patchfile.sections[TheStart.section_number].data)
    /\ TheRelocated.ok

\* section i of the image covers the virtual range [from, to)
Covers(i, from, to) ==
    /\ xbe.sections[i].virtual_address <= from
    /\ to <= xbe.sections[i].virtual_address + xbe.sections[i].virtual_size

\* C4: a valid patch of any length that fits inside a host section, lengths greater
\* than five bytes included, is applied: exactly the bytes [start.value, end.value) of
\* its relocated section are copied into the image at the configured virtual_address.
C4_CopiesWholePatch ==
    [][ \A h \in 1..Len(xbe.sections) :
          ( /\ PatchCase /\ PatchValid
            /\ Covers(h, ThePatch.virtual_address,
                      ThePatch.virtual_address + (TheEnd.value - TheStart.value)) ) =>
            LET off == ThePatch.virtual_address - xbe.sections[h].virtual_address
                len == TheEnd.value - TheStart.value
            IN  /\ pc' = "patch"
                /\ SubSeq(xbe'.sections[h].data, off + 1, off + len)
                       = SubSeq(TheRelocated.map[TheKey].bytes, TheStart.value + 1, TheEnd.value)
      ]_vars

\* C9: a patch whose start symbol and end symbol have different section numbers fails
\* with SectionMismatch, and the image is left as it was.
C9_SectionMismatch ==
    [][ ( /\ PatchCase /\ SymbolsFound
          /\ TheStart.section_number # TheEnd.section_number ) =>
          /\ pc' = "failed"
          /\ err'.kind = "SectionMismatch"
          /\ xbe' = xbe
      ]_vars

\* the patch applied last
LastPatch == config.patches[cursor - 1]

\* a patch with its two symbols in different sections was refused
C9_Witness ==
    /\ pc = "failed" /\ err.kind = "SectionMismatch"
    /\ cursor > 1 /\ cursor - 1 <= Len(config.patches)
    /\ LET syms == LastPatch.patchfile.symbols IN
       syms[find_symbol(LastPatch, LastPatch.start_symbol_name)].section_number
           # syms[find_symbol(LastPatch, LastPatch.end_symbol_name)].section_number
    /\ xbe \in BaseImages

\* C10: a valid patch whose window [virtual_address, virtual_address + 5) no section
\* of the image covers fails with InvalidAddress(virtual_address), and changes no byte
\* of the image.
C10_InvalidAddress ==
    [][ ( /\ PatchCase /\ PatchValid
          /\ \A h \in 1..Len(xbe.sections) :
                ~Covers(h, ThePatch.virtual_address, ThePatch.virtual_address + PatchWindow) ) =>
          /\ pc' = "failed"
          /\ err' = Error("InvalidAddress", "", ThePatch.virtual_address)
          /\ xbe' = xbe
      ]_vars

\* a patch configured at an address that no section covers was refused
C10_Witness ==
    /\ pc = "failed" /\ err.kind = "InvalidAddress"
    /\ cursor > 1 /\ cursor - 1 <= Len(config.patches)
    /\ err.number = LastPatch.virtual_address
    /\ \A h \in 1..Len(xbe.sections) :
          ~Covers(h, LastPatch.virtual_address, LastPatch.virtual_address + PatchWindow)
    /\ xbe \in BaseImages

(***************************************************************************)
(* The sections of the linked image                                        *)
(***************************************************************************)

\* the virtual-address ranges of sections i and j of the image do not meet
Disjoint(i, j) ==
    \/ xbe.sections[i].virtual_address + xbe.sections[i].virtual_size
           <= xbe.sections[j].virtual_address
    \/ xbe.sections[j].virtual_address + xbe.sections[j].virtual_size
           <= xbe.sections[i].virtual_address

\* the sections the driver appended: those named ".m..." (the base images' are not)
Appended == { i \in 1..Len(xbe.sections) : xbe.sections[i].name[2] = 109 }

\* C5: in the linked image the virtual-address ranges of all sections, the base
\* image's and the appended ones, are pairwise disjoint, and the appended sections in
\* virtual-address order have strictly increasing addresses.
C5_DisjointRanges ==
    pc = "done" =>
        /\ \A i, j \in 1..Len(xbe.sections) : i # j => Disjoint(i, j)
        /\ \A i, j \in Appended :
              i # j => xbe.sections[i].virtual_address # xbe.sections[j].virtual_address

(***************************************************************************)
(* XBE container codec: the raw image and its serialization                *)
(***************************************************************************)

\* pad: amount zero bytes are appended
Zeros(n) == [i \in 1..n |-> 0]
pad(v, amount) == v \o Zeros(amount)

\* pad_to: zero bytes are appended until the length is `to`
pad_to(v, to) == IF Len(v) < to THEN v \o Zeros(to - Len(v)) ELSE v

\* pad_to_nearest: zero bytes are appended until the length is a multiple of `to`
pad_to_nearest(v, to) == v \o Zeros((to - (Len(v) % to)) % to)

\* write_u16::<LE>
ToLE16(v) == << v % 256, (v \div 256) % 256 >>

\* the u32 fields of the image header, in the order they are written and read
ImageHeaderFields ==
    << "base_address", "size_of_headers", "size_of_image", "size_of_image_header",
       "time_date", "certificate_address", "number_of_sections", "section_headers_address",
       "initialization_flags", "entry_point", "tls_address", "pe_stack_commit",
       "pe_heap_reserve", "pe_head_commit", "pe_base_address", "pe_size_of_image",
       "pe_checksum", "pe_time_date", "debug_pathname_address", "debug_filename_address",
       "debug_unicode_filename_address", "kernel_image_thunk_address",
       "non_kernel_import_directory_address", "number_of_library_versions",
       "library_versions_address", "kernel_library_version_address",
       "xapi_library_version_address", "logo_bitmap_address", "logo_bitmap_size" >>

\* the little-endian words of the fields `names` of the record r, from the i-th on
RECURSIVE FieldWords(_, _, _)
FieldWords(r, names, i) ==
    IF i > Len(names) THEN <<>>
    ELSE ToLE32(r[names[i]]) \o FieldWords(r, names, i + 1)

\* ImageHeader::serialize
ImageHeader_serialize(h) ==
    pad_to(h.magic_number \o h.digital_signature \o FieldWords(h, ImageHeaderFields, 1),
           h.size_of_image_header)

\* Certificate::serialize
Certificate_serialize(c) ==
    ToLE32(c.size) \o ToLE32(c.time_date) \o ToLE32(c.title_id)
        \o c.title_name \o c.alternate_title_ids
        \o ToLE32(c.allowed_media) \o ToLE32(c.game_region) \o ToLE32(c.game_ratings)
        \o ToLE32(c.disk_number) \o ToLE32(c.version)
        \o c.lan_key \o c.signature_key \o c.alternate_signature_keys \o c.unknown

\* the u32 fields of a section header, in the order they are written and read
SectionHeaderFields ==
    << "section_flags", "virtual_address", "virtual_size", "raw_address", "raw_size",
       "section_name_address", "section_name_reference_count",
       "head_shared_page_reference_count_address",
       "tail_shared_page_reference_count_address" >>

\* SectionHeader::serialize
SectionHeader_serialize(h) == FieldWords(h, SectionHeaderFields, 1) \o h.section_digest

\* LibraryVersion::serialize
LibraryVersion_serialize(l) ==
    l.library_name \o ToLE16(l.major_version) \o ToLE16(l.minor_version)
        \o ToLE16(l.build_version) \o ToLE16(l.library_flags)

\* the concatenation of the byte strings of a sequence
RECURSIVE Concat(_, _)
Concat(parts, i) == IF i > Len(parts) THEN <<>> ELSE parts[i] \o Concat(parts, i + 1)

\* Xbe::serialize_section_headers: the headers, then the head/tail reference bytes
serialize_section_headers(r) ==
    Concat([i \in 1..Len(r.section_headers) |-> SectionHeader_serialize(r.section_headers[i])], 1)
        \o Zeros(Len(r.section_headers) * 2 + 2)

\* Xbe::serialize_section_names
serialize_section_names(r) == Concat(r.section_names, 1)

\* Xbe::serialize_library_versions
serialize_library_versions(r) ==
    Concat([i \in 1..Len(r.library_versions) |-> LibraryVersion_serialize(r.library_versions[i])], 1)

\* the indices of the section headers sorted by raw_address (sort_by is stable)
RECURSIVE ByRawAddress(_, _)
ByRawAddress(headers, left) ==
    IF left = {} THEN <<>>
    ELSE LET first == CHOOSE i \in left :
                        \A j \in left :
                            \/ headers[i].raw_address < headers[j].raw_address
                            \/ (headers[i].raw_address = headers[j].raw_address /\ i <= j)
         IN  <<first>> \o ByRawAddress(headers, left \ {first})

RECURSIVE SectionsLoop(_, _, _, _)
SectionsLoop(r, order, i, v) ==
    IF i > Len(order) THEN v
    ELSE SectionsLoop(r, order, i + 1, pad_to_nearest(v \o r.sections[order[i]].bytes, 4096))

\* Xbe::serialize_sections: ok is FALSE when the headers and the sections differ in number
serialize_sections(r) ==
    IF Len(r.section_headers) # Len(r.sections)
    THEN [ok |-> FALSE, bytes |-> <<>>]
    ELSE [ok |-> TRUE,
          bytes |-> SectionsLoop(r, ByRawAddress(r.section_headers, 1..Len(r.section_headers)),
                                 1, <<>>)]

\* the u16 values of a string, little-endian
RECURSIVE Words16(_, _)
Words16(u, i) == IF i > Len(u) THEN <<>> ELSE ToLE16(u[i]) \o Words16(u, i + 1)

\* raw::Xbe::serialize
Xbe_serialize(r) ==
    LET h == r.image_header
        sections == serialize_sections(r)
        v1 == pad_to(ImageHeader_serialize(h), h.certificate_address - h.base_address)
                  \o Certificate_serialize(r.certificate)
        v2 == pad_to(v1, h.section_headers_address - h.base_address)
                  \o serialize_section_headers(r) \o serialize_section_names(r)
        v3 == pad_to_nearest(v2, 4) \o serialize_library_versions(r)
        v4 == pad_to(v3, h.debug_unicode_filename_address - h.base_address)
                  \o Words16(r.debug_unicode_filename, 1)
        v5 == pad_to(v4, h.debug_pathname_address - h.base_address) \o r.debug_pathname
        v6 == pad_to(v5, h.logo_bitmap_address - h.base_address) \o r.logo_bitmap
    IN  IF ~sections.ok THEN [ok |-> FALSE, bytes |-> <<>>]
        ELSE [ok |-> TRUE, bytes |-> pad(pad_to_nearest(v6, 4096) \o sections.bytes, 4096)]

(***************************************************************************)
(* XBE container codec: loading                                            *)
(***************************************************************************)

\* n bytes of the file from the 0-based position pos; Readable: they are all there
Slice(bytes, pos, n) == SubSeq(bytes, pos + 1, pos + n)
Readable(bytes, pos, n) == pos >= 0 /\ n >= 0 /\ pos + n <= Len(bytes)

\* read_u32::<LE> and read_u16::<LE> at a position (the value is below 2^31 in every
\* image considered)
FromLE32(w) == w[1] + 256 * w[2] + 65536 * w[3] + 16777216 * w[4]
U32At(bytes, pos) == FromLE32(ReadLE32(bytes, pos))
U16At(bytes, pos) == bytes[pos + 1] + 256 * bytes[pos + 2]

\* the 1-based index of the first NUL byte at or after the 0-based position pos, or 0
RECURSIVE NulFrom(_, _)
NulFrom(bytes, pos) ==
    IF pos + 1 > Len(bytes) THEN 0
    ELSE IF bytes[pos + 1] = 0 THEN pos + 1
    ELSE NulFrom(bytes, pos + 1)

\* the null-terminated string read at pos, terminator included (<<>>: end of file)
CStringAt(bytes, pos) ==
    LET e == NulFrom(bytes, pos) IN IF e = 0 THEN <<>> ELSE SubSeq(bytes, pos + 1, e)

\* the u16 values read at pos up to and including the first zero (<<>>: end of file)
RECURSIVE WStringAt(_, _)
WStringAt(bytes, pos) ==
    IF ~Readable(bytes, pos, 2) THEN <<>>
    ELSE IF U16At(bytes, pos) = 0 THEN << 0 >>
    ELSE LET rest == WStringAt(bytes, pos + 2) IN
         IF rest = <<>> THEN <<>> ELSE << U16At(bytes, pos) >> \o rest

\* the lengths of the fixed parts, as the reads and writes add up
ImageHeaderLength == 4 + 256 + 4 * Len(ImageHeaderFields)
CertificateLength == 4 * 3 + 80 + 64 + 4 * 5 + 16 + 16 + 256
SectionHeaderLength == 4 * Len(SectionHeaderFields) + 20
LibraryVersionLength == 8 + 2 * 4

\* load_image_header
load_image_header(bytes) ==
    LET F(k) == U32At(bytes, 260 + 4 * k) IN
    [magic_number |-> Slice(bytes, 0, 4),
     digital_signature |-> Slice(bytes, 4, 256),
     base_address |-> F(0), size_of_headers |-> F(1), size_of_image |-> F(2),
     size_of_image_header |-> F(3), time_date |-> F(4), certificate_address |-> F(5),
     number_of_sections |-> F(6), section_headers_address |-> F(7),
     initialization_flags |-> F(8), entry_point |-> F(9), tls_address |-> F(10),
     pe_stack_commit |-> F(11), pe_heap_reserve |-> F(12), pe_head_commit |-> F(13),
     pe_base_address |-> F(14), pe_size_of_image |-> F(15), pe_checksum |-> F(16),
     pe_time_date |-> F(17), debug_pathname_address |-> F(18),
     debug_filename_address |-> F(19), debug_unicode_filename_address |-> F(20),
     kernel_image_thunk_address |-> F(21), non_kernel_import_directory_address |-> F(22),
     number_of_library_versions |-> F(23), library_versions_address |-> F(24),
     kernel_library_version_address |-> F(25), xapi_library_version_address |-> F(26),
     logo_bitmap_address |-> F(27), logo_bitmap_size |-> F(28)]

\* load_certificate: the fixed fields, then the bytes up to start + size
load_certificate(bytes, header) ==
    LET start == header.certificate_address - header.base_address
        size == U32At(bytes, start)
    IN  [size |-> size,
         time_date |-> U32At(bytes, start + 4),
         title_id |-> U32At(bytes, start + 8),
         title_name |-> Slice(bytes, start + 12, 80),
         alternate_title_ids |-> Slice(bytes, start + 92, 64),
         allowed_media |-> U32At(bytes, start + 156),
         game_region |-> U32At(bytes, start + 160),
         game_ratings |-> U32At(bytes, start + 164),
         disk_number |-> U32At(bytes, start + 168),
         version |-> U32At(bytes, start + 172),
         lan_key |-> Slice(bytes, start + 176, 16),
         signature_key |-> Slice(bytes, start + 192, 16),
         alternate_signature_keys |-> Slice(bytes, start + 208, 256),
         unknown |-> IF size > CertificateLength
                     THEN Slice(bytes, start + CertificateLength, size - CertificateLength)
                     ELSE <<>>]

\* one section header read at pos
SectionHeaderAt(bytes, pos) ==
    LET F(k) == U32At(bytes, pos + 4 * k) IN
    [section_flags |-> F(0), virtual_address |-> F(1), virtual_size |-> F(2),
     raw_address |-> F(3), raw_size |-> F(4), section_name_address |-> F(5),
     section_name_reference_count |-> F(6),
     head_shared_page_reference_count_address |-> F(7),
     tail_shared_page_reference_count_address |-> F(8),
     section_digest |-> Slice(bytes, pos + 36, 20)]

\* load_section_headers
load_section_headers(bytes, header) ==
    [i \in 1..header.number_of_sections |->
        SectionHeaderAt(bytes, header.section_headers_address - header.base_address
                               + (i - 1) * SectionHeaderLength)]

\* load_section_names
load_section_names(bytes, header, section_headers) ==
    [i \in 1..Len(section_headers) |->
        CStringAt(bytes, section_headers[i].section_name_address - header.base_address)]

\* load_library_versions
load_library_versions(bytes, header) ==
    [i \in 1..header.number_of_library_versions |->
        LET pos == header.library_versions_address - header.base_address
                       + (i - 1) * LibraryVersionLength
        IN  [library_name |-> Slice(bytes, pos, 8),
             major_version |-> U16At(bytes, pos + 8),
             minor_version |-> U16At(bytes, pos + 10),
             build_version |-> U16At(bytes, pos + 12),
             library_flags |-> U16At(bytes, pos + 14)]]

\* load_section
load_section(bytes, section_header) ==
    [bytes |-> Slice(bytes, section_header.raw_address, section_header.raw_size)]

\* the loaded image when a read runs past the end of the file
LoadFailed == [ok |-> FALSE, raw |-> <<>>]

\* load_xbe: the raw image read from the bytes of a file, or a failed read
load_xbe(bytes) ==
    IF ~Readable(bytes, 0, ImageHeaderLength) THEN LoadFailed
    ELSE
    LET image_header == load_image_header(bytes)
        base == image_header.base_address
        cert_start == image_header.certificate_address - base
    IN
    IF ~Readable(bytes, cert_start, CertificateLength) THEN LoadFailed
    ELSE
    LET certificate == load_certificate(bytes, image_header) IN
    IF ~Readable(bytes, cert_start, certificate.size) THEN LoadFailed
    ELSE IF ~Readable(bytes, image_header.logo_bitmap_address - base,
                      image_header.logo_bitmap_size) THEN LoadFailed
    ELSE IF ~Readable(bytes, image_header.section_headers_address - base,
                      image_header.number_of_sections * SectionHeaderLength) THEN LoadFailed
    ELSE
    LET section_headers == load_section_headers(bytes, image_header)
        section_names == load_section_names(bytes, image_header, section_headers)
        debug_filename == CStringAt(bytes, image_header.debug_filename_address - base)
        debug_pathname == CStringAt(bytes, image_header.debug_pathname_address - base)
        debug_unicode_filename ==
            WStringAt(bytes, image_header.debug_unicode_filename_address - base)
    IN
    IF \E i \in 1..Len(section_names) : section_names[i] = <<>> THEN LoadFailed
    ELSE IF <<>> \in {debug_filename, debug_pathname, debug_unicode_filename} THEN LoadFailed
    ELSE IF \E i \in 1..Len(section_headers) :
                ~Readable(bytes, section_headers[i].raw_address, section_headers[i].raw_size)
    THEN LoadFailed
    ELSE IF ~Readable(bytes, image_header.library_versions_address - base,
                      image_header.number_of_library_versions * LibraryVersionLength)
    THEN LoadFailed
    ELSE
    [ok |-> TRUE,
     raw |-> [image_header |-> image_header,
              certificate |-> certificate,
              section_headers |-> section_headers,
              section_names |-> section_names,
              library_versions |-> load_library_versions(bytes, image_header),
              debug_filename |-> debug_filename,
              debug_pathname |-> debug_pathname,
              debug_unicode_filename |-> debug_unicode_filename,
              logo_bitmap |-> Slice(bytes, image_header.logo_bitmap_address - base,
                                    image_header.logo_bitmap_size),
              sections |-> [i \in 1..Len(section_headers) |->
                               load_section(bytes, section_headers[i])]]]

(***************************************************************************)
(* XBE container codec: the image in memory                                *)
(***************************************************************************)

\* bitwise and of two naturals
RECURSIVE BitAnd(_, _)
BitAnd(a, b) ==
    IF a = 0 \/ b = 0 THEN 0
    ELSE (a % 2) * (b % 2) + 2 * BitAnd(a \div 2, b \div 2)

\* the bits the flag types define, below bit 31: AllowedMedia (the media mask and
\* NONSECURE_HARD_DISK), GameRegion and SectionFlags
AllowedMediaBits == 1090519039
GameRegionBits == 7
SectionFlagsBits == 63

\* from_bits_truncate: the bits the type does not define are dropped
from_bits_truncate(bits, defined) == BitAnd(bits, defined)

\* Xbe::from_raw
from_raw(r) ==
    [header |->
        [digital_signature |-> r.image_header.digital_signature,
         debug_pathname |-> r.debug_pathname,
         debug_filename |-> r.debug_filename,
         debug_unicode_filename |-> r.debug_unicode_filename,
         image_time_date |-> r.image_header.time_date,
         entry_point |-> r.image_header.entry_point,
         tls_address |-> r.image_header.tls_address,
         pe |-> [stack_commit |-> r.image_header.pe_stack_commit,
                 heap_reserve |-> r.image_header.pe_heap_reserve,
                 head_commit |-> r.image_header.pe_head_commit,
                 base_address |-> r.image_header.pe_base_address,
                 size_of_image |-> r.image_header.pe_size_of_image,
                 checksum |-> r.image_header.pe_checksum,
                 timedate |-> r.image_header.pe_time_date],
         kernel_image_thunk_address |-> r.image_header.kernel_image_thunk_address,
         cert_time_date |-> r.certificate.time_date,
         title_id |-> r.certificate.title_id,
         title_name |-> r.certificate.title_name,
         allowed_media |-> from_bits_truncate(r.certificate.allowed_media, AllowedMediaBits),
         game_ratings |-> r.certificate.game_ratings,
         game_region |-> from_bits_truncate(r.certificate.game_region, GameRegionBits),
         cert_version |-> r.certificate.version,
         lan_key |-> r.certificate.lan_key,
         signature_key |-> r.certificate.signature_key,
         alternate_signature_keys |-> r.certificate.alternate_signature_keys,
         unknown |-> r.certificate.unknown],
     sections |->
        [i \in 1..Len(r.sections) |->
            [name |-> r.section_names[i],
             flags |-> from_bits_truncate(r.section_headers[i].section_flags, SectionFlagsBits),
             data |-> r.sections[i].bytes,
             virtual_address |-> r.section_headers[i].virtual_address,
             virtual_size |-> r.section_headers[i].virtual_size,
             raw_address |-> r.section_headers[i].raw_address,
             digest |-> r.section_headers[i].section_digest]],
     library_versions |-> r.library_versions,
     logo_bitmap |-> r.logo_bitmap]

\* the names of the two libraries convert_to_raw looks for: "XBOXKRNL" and "XAPILIB\0"
XBOXKRNL == << 88, 66, 79, 88, 75, 82, 78, 76 >>
XAPILIB == << 88, 65, 80, 73, 76, 73, 66, 0 >>

\* iter().position(): the 0-based index of the first library of that name, or -1
LibraryPosition(library_versions, name) ==
    LET hit == {i \in 1..Len(library_versions) : library_versions[i].library_name = name}
    IN  IF hit = {} THEN -1 ELSE (CHOOSE i \in hit : \A j \in hit : i <= j) - 1

\* str::rfind('\\'): the 0-based index of the last backslash, or -1
rfind_backslash(str) ==
    LET hit == {i \in 1..Len(str) : str[i] = 92}
    IN  IF hit = {} THEN -1 ELSE (CHOOSE i \in hit : \A j \in hit : j <= i) - 1

\* the sum of the lengths of the first n section names
RECURSIVE NamesLength(_, _)
NamesLength(sections, n) ==
    IF n = 0 THEN 0 ELSE NamesLength(sections, n - 1) + Len(sections[n].name)

\* the section header of greatest virtual_address (sorted_by is stable: the last of
\* them), of a non-empty list
LastByVirtualAddress(headers) ==
    CHOOSE i \in 1..Len(headers) :
        \A j \in 1..Len(headers) :
            \/ headers[j].virtual_address < headers[i].virtual_address
            \/ (headers[j].virtual_address = headers[i].virtual_address /\ j <= i)

\* Xbe::convert_to_raw; panic: one of its expect() calls fails
convert_to_raw(x) ==
    LET base_address == 65536
        image_header_size == 388
        certificate_size == 492
        section_names_size == round_to_next(NamesLength(x.sections, Len(x.sections)), 4)
        section_headers_size == Len(x.sections) * 56
        section_page_reference_size == Len(x.sections) * 2 + 2
        tables == base_address + image_header_size + certificate_size + section_headers_size
        section_headers ==
            [i \in 1..Len(x.sections) |->
                [section_flags |-> x.sections[i].flags,
                 virtual_address |-> x.sections[i].virtual_address,
                 virtual_size |-> x.sections[i].virtual_size,
                 raw_address |-> x.sections[i].raw_address,
                 raw_size |-> Len(x.sections[i].data),
                 section_name_address |->
                     tables + section_page_reference_size + NamesLength(x.sections, i - 1),
                 section_name_reference_count |-> 0,
                 head_shared_page_reference_count_address |-> tables + (i - 1) * 2,
                 tail_shared_page_reference_count_address |-> tables + (i - 1) * 2 + 2,
                 section_digest |-> IF x.sections[i].digest = <<>> THEN Zeros(20)
                                    ELSE x.sections[i].digest]]
        kernel_index == LibraryPosition(x.library_versions, XBOXKRNL)
        xapi_index == LibraryPosition(x.library_versions, XAPILIB)
        library_versions_size == Len(x.library_versions) * 16
        size_of_image ==
            (IF Len(section_headers) = 0 THEN base_address
             ELSE LET h == section_headers[LastByVirtualAddress(section_headers)] IN
                  round_to_next(h.virtual_address + h.virtual_size, 32))
            - base_address
        debug_strings_size ==
            Len(x.header.debug_unicode_filename) * 2 + Len(x.header.debug_pathname)
        library_versions_address ==
            tables + section_page_reference_size + section_names_size
        debug_unicode_filename_address == library_versions_address + library_versions_size
        debug_pathname_address ==
            debug_unicode_filename_address + Len(x.header.debug_unicode_filename) * 2
        debug_filename_address ==
            debug_pathname_address + rfind_backslash(x.header.debug_pathname) + 1
        logo_bitmap_size == Len(x.logo_bitmap)
        size_of_headers ==
            round_to_next(image_header_size + certificate_size + section_headers_size
                          + section_page_reference_size + section_names_size
                          + library_versions_size + debug_strings_size + logo_bitmap_size, 4)
    IN
    IF kernel_index < 0 \/ xapi_index < 0 \/ rfind_backslash(x.header.debug_pathname) < 0
    THEN [panic |-> TRUE, raw |-> <<>>]
    ELSE
    [panic |-> FALSE,
     raw |->
       [image_header |->
          [magic_number |-> << 88, 66, 69, 72 >>,
           digital_signature |-> x.header.digital_signature,
           base_address |-> base_address,
           size_of_headers |-> size_of_headers,
           size_of_image |-> size_of_image,
           size_of_image_header |-> image_header_size,
           time_date |-> x.header.image_time_date,
           certificate_address |-> image_header_size + base_address,
           number_of_sections |-> Len(x.sections),
           section_headers_address |-> image_header_size + certificate_size + base_address,
           initialization_flags |-> 5,
           entry_point |-> x.header.entry_point,
           tls_address |-> x.header.tls_address,
           pe_stack_commit |-> x.header.pe.stack_commit,
           pe_heap_reserve |-> x.header.pe.heap_reserve,
           pe_head_commit |-> x.header.pe.head_commit,
           pe_base_address |-> x.header.pe.base_address,
           pe_size_of_image |-> x.header.pe.size_of_image,
           pe_checksum |-> x.header.pe.checksum,
           pe_time_date |-> x.header.pe.timedate,
           debug_pathname_address |-> debug_pathname_address,
           debug_filename_address |-> debug_filename_address,
           debug_unicode_filename_address |-> debug_unicode_filename_address,
           kernel_image_thunk_address |-> x.header.kernel_image_thunk_address,
           non_kernel_import_directory_address |-> 0,
           number_of_library_versions |-> Len(x.library_versions),
           library_versions_address |-> library_versions_address,
           kernel_library_version_address |-> library_versions_address + kernel_index * 16,
           xapi_library_version_address |-> library_versions_address + xapi_index * 16,
           logo_bitmap_address |->
               library_versions_address + library_versions_size + debug_strings_size,
           logo_bitmap_size |-> logo_bitmap_size],
        certificate |->
          [size |-> certificate_size,
           time_date |-> x.header.cert_time_date,
           title_id |-> x.header.title_id,
           title_name |-> x.header.title_name,
           alternate_title_ids |-> Zeros(64),
           allowed_media |-> x.header.allowed_media,
           game_region |-> x.header.game_region,
           game_ratings |-> x.header.game_ratings,
           disk_number |-> 0,
           version |-> x.header.cert_version,
           lan_key |-> x.header.lan_key,
           signature_key |-> x.header.signature_key,
           alternate_signature_keys |-> x.header.alternate_signature_keys,
           unknown |-> x.header.unknown],
        section_headers |-> section_headers,
        section_names |-> [i \in 1..Len(x.sections) |-> x.sections[i].name],
        library_versions |-> x.library_versions,
        debug_pathname |-> x.header.debug_pathname,
        debug_filename |-> x.header.debug_filename,
        debug_unicode_filename |-> x.header.debug_unicode_filename,
        logo_bitmap |-> x.logo_bitmap,
        sections |-> [i \in 1..Len(x.sections) |-> [bytes |-> x.sections[i].data]]]]

(***************************************************************************)
(* XBE container codec: images and the round trip                          *)
(***************************************************************************)

\* the most sections an image holds
MaxImageSections == 2

\* the k-th section of an image: 8 bytes at raw address k * 0x1000
ImageSection(k, flags) ==
    [name |-> << 46, 115, 48 + k, 0 >>,
     flags |-> flags,
     data |-> [i \in 1..8 |-> 16 * k + i],
     virtual_address |-> 65536 + 4096 * k,
     virtual_size |-> 8,
     raw_address |-> 4096 * k,
     digest |-> [i \in 1..20 |-> k]]

\* an image in memory with n sections: debug path "d:\x.exe", the two libraries
\* every image links, a four-byte logo
VanillaXbe(n, flags, entry_point) ==
    [header |->
        [digital_signature |-> [i \in 1..256 |-> i % 256],
         debug_pathname |-> << 100, 58, 92, 120, 46, 101, 120, 101, 0 >>,
         debug_filename |-> << 120, 46, 101, 120, 101, 0 >>,
         debug_unicode_filename |-> << 120, 46, 101, 120, 101, 0 >>,
         image_time_date |-> 1000,
         entry_point |-> entry_point,
         tls_address |-> 0,
         pe |-> [stack_commit |-> 65536, heap_reserve |-> 1048576, head_commit |-> 4096,
                 base_address |-> 4194304, size_of_image |-> 4096 * (n + 1),
                 checksum |-> 0, timedate |-> 1000],
         kernel_image_thunk_address |-> 65536 + 4096,
         cert_time_date |-> 1000,
         title_id |-> 7,
         title_name |-> [i \in 1..80 |-> IF i = 1 THEN 88 ELSE 0],
         allowed_media |-> 2,
         game_ratings |-> 0,
         game_region |-> 1,
         cert_version |-> 1,
         lan_key |-> [i \in 1..16 |-> 1],
         signature_key |-> [i \in 1..16 |-> 2],
         alternate_signature_keys |-> [i \in 1..256 |-> 3],
         unknown |-> Zeros(492 - CertificateLength)],
     sections |-> [k \in 1..n |-> ImageSection(k, flags)],
     library_versions |->
        << [library_name |-> XAPILIB, major_version |-> 1, minor_version |-> 0,
            build_version |-> 5849, library_flags |-> 0],
           [library_name |-> XBOXKRNL, major_version |-> 1, minor_version |-> 0,
            build_version |-> 5849, library_flags |-> 0] >>,
     logo_bitmap |-> << 1, 2, 3, 4 >>]

\* the header of a well-formed image file: the tables follow one another from the
\* section headers on (reference bytes, names, the 4-byte-aligned library versions, the
\* debug strings, the logo), and every address field holds the place of its table
WellFormedHeader(x, h) ==
    LET n == Len(x.sections)
        names_end == 65536 + 388 + 492 + 56 * n + 2 * n + 2 + NamesLength(x.sections, n)
        library_versions_address == round_to_next(names_end, 4)
        debug_unicode_filename_address ==
            library_versions_address + LibraryVersionLength * Len(x.library_versions)
        debug_pathname_address ==
            debug_unicode_filename_address + 2 * Len(x.header.debug_unicode_filename)
        logo_bitmap_address == debug_pathname_address + Len(x.header.debug_pathname)
    IN  [h EXCEPT
            !.library_versions_address = library_versions_address,
            !.kernel_library_version_address =
                library_versions_address
                    + LibraryVersionLength * LibraryPosition(x.library_versions, XBOXKRNL),
            !.xapi_library_version_address =
                library_versions_address
                    + LibraryVersionLength * LibraryPosition(x.library_versions, XAPILIB),
            !.debug_unicode_filename_address = debug_unicode_filename_address,
            !.debug_pathname_address = debug_pathname_address,
            !.debug_filename_address =
                debug_pathname_address + rfind_backslash(x.header.debug_pathname) + 1,
            !.logo_bitmap_address = logo_bitmap_address,
            !.size_of_headers =
                round_to_next(logo_bitmap_address + Len(x.logo_bitmap) - 65536, 4)]

\* a well-formed image file: the fields of x, the fields that the image in memory
\* does not keep (initialization flags, disk number, alternate title ids), each table
\* at its address and each section at its raw address
WellFormedImage(x, init, disk, alt) ==
    LET r == convert_to_raw(x).raw IN
    Xbe_serialize(
        [r EXCEPT
            !.image_header =
                WellFormedHeader(x, [r.image_header EXCEPT !.initialization_flags = init]),
            !.certificate.disk_number = disk,
            !.certificate.alternate_title_ids = [i \in 1..64 |-> IF i = 1 THEN alt ELSE 0]]
    ).bytes

WellFormedImages ==
    { WellFormedImage(VanillaXbe(n, flags, entry_point), init, disk, alt) :
        n \in 1..MaxImageSections, flags \in {6, 3, 70}, entry_point \in {69632, 69636},
        init \in {5, 1}, disk \in {0, 1}, alt \in {0, 9} }

\* the file handed to Xbe::new: a well-formed image, or one whose first four bytes are
\* "XBE" and a zero byte instead of "XBEH"
InitCodec ==
    /\ image \in WellFormedImages \cup { [b EXCEPT ![4] = 0] : b \in WellFormedImages }
    /\ raw = <<>>
    /\ xbe = <<>>
    /\ output = <<>>
    /\ pc = "file"
    /\ err = NoError
    /\ config = [patches |-> <<>>, modfiles |-> <<>>]
    /\ section_map = EmptyMap
    /\ symbol_table = NoSymbols
    /\ cursor = 1
    /\ builder = <<>>
    /\ log = <<>>
    /\ result = <<>>

\* raw::Xbe::load
Load ==
    /\ pc = "file"
    /\ LET r == load_xbe(image) IN
       /\ raw' = r.raw
       /\ pc' = IF r.ok THEN "raw" ELSE "failed"
       /\ err' = IF r.ok THEN err ELSE Error("UnexpectedEof", "", 0)
    /\ UNCHANGED <<config, xbe, section_map, symbol_table, cursor, image, output,
                 builder, log, result>>

\* Xbe::from_raw
FromRaw ==
    /\ pc = "raw"
    /\ xbe' = from_raw(raw)
    /\ pc' = "xbe"
    /\ UNCHANGED <<config, section_map, symbol_table, cursor, err, image, raw, output,
                 builder, log, result>>

\* Xbe::convert_to_raw
ConvertToRaw ==
    /\ pc = "xbe"
    /\ LET r == convert_to_raw(xbe) IN
       /\ raw' = r.raw
       /\ pc' = IF r.panic THEN "panicked" ELSE "raw2"
    /\ UNCHANGED <<config, xbe, section_map, symbol_table, cursor, err, image, output,
                 builder, log, result>>

\* raw::Xbe::serialize
Serialize ==
    /\ pc = "raw2"
    /\ LET r == Xbe_serialize(raw) IN
       /\ output' = r.bytes
       /\ pc' = IF r.ok THEN "bytes" ELSE "failed"
    /\ UNCHANGED <<config, xbe, section_map, symbol_table, cursor, err, image, raw,
                 builder, log, result>>

NextCodec == Load \/ FromRaw \/ ConvertToRaw \/ Serialize

SpecCodec == InitCodec /\ [][NextCodec]_vars

\* an image was loaded and written again, every field that the image in memory does
\* not keep holding the value convert_to_raw writes
RoundTripWitness ==
    /\ pc = "bytes"
    /\ Slice(image, 0, 4) = << 88, 66, 69, 72 >>
    /\ U32At(image, 260 + 4 * 8) = 5
    /\ \A i \in 1..64 : image[388 + 92 + i] = 0
    /\ U32At(image, 388 + 168) = 0
    /\ output = image

\* C1: loading a well-formed image and serializing it again, nothing modified in
\* between, yields the bytes of the input.
C1_RoundTrip == (pc = "bytes" /\ Slice(image, 0, 4) = << 88, 66, 69, 72 >>) => output = image

\* an image is reproduced when the fields that the image in memory does not keep hold
\* the values convert_to_raw writes and the section names end on a 4-byte boundary
RoundTripOfKeptFields ==
    ( /\ pc = "bytes"
      /\ Slice(image, 0, 4) = << 88, 66, 69, 72 >>
      /\ \A i \in 1..U32At(image, 260 + 4 * 6) : U32At(image, 880 + 56 * (i - 1)) < 64
      /\ U32At(image, 260 + 4 * 8) = 5
      /\ \A i \in 1..64 : image[388 + 92 + i] = 0
      /\ U32At(image, 388 + 168) = 0
      /\ (2 * Len(xbe.sections) + 2 + NamesLength(xbe.sections, Len(xbe.sections))) % 4 = 0 )
    => output = image

\* C23: loading an image whose first four bytes are not "XBEH" fails, and no image in
\* memory is made from it.
C23_BadMagicFails ==
    (pc # "file" /\ Slice(image, 0, 4) # << 88, 66, 69, 72 >>) => (pc = "failed" /\ xbe = <<>>)

\* the flag fields and the digest of section i, as a file holds them: the header's
\* initialization_flags, the certificate's allowed_media and game_region, and the
\* section header's section_flags and section_digest
FlagFields(bytes, i) ==
    << U32At(bytes, 260 + 4 * 8), U32At(bytes, 388 + 156), U32At(bytes, 388 + 160),
       U32At(bytes, 880 + 56 * (i - 1)), Slice(bytes, 880 + 56 * (i - 1) + 36, 20) >>

\* C24: load followed by serialize reproduces every flag field as it was loaded, for
\* every 32-bit value, and each section's digest.
C24_FlagsVerbatim ==
    pc = "bytes" =>
        \A i \in 1..U32At(image, 260 + 4 * 6) : FlagFields(output, i) = FlagFields(image, i)

\* the digests are reproduced, and so are the flag fields that hold only named bits
\* when initialization_flags is 5
DigestsAndNamedFlagsKept ==
    pc = "bytes" =>
        \A i \in 1..U32At(image, 260 + 4 * 6) :
            /\ FlagFields(output, i)[5] = FlagFields(image, i)[5]
            /\ (FlagFields(image, i)[1] = 5 /\ FlagFields(image, i)[4] < 64) =>
                   FlagFields(output, i) = FlagFields(image, i)

(***************************************************************************)
(* What a link run changes in the base image                               *)
(***************************************************************************)

\* byte k (1-based) of the data of section h lies in the byte range of the patch the
\* driver is about to apply: [virtual_address, virtual_address + (end - start))
InPatchRange(h, k) ==
    /\ PatchCase /\ SymbolsFound
    /\ LET va == xbe.sections[h].virtual_address + (k - 1) IN
       /\ ThePatch.virtual_address <= va
       /\ va < ThePatch.virtual_address + (TheEnd.value - TheStart.value)

\* the name and the data of the sections listed after the first n
NewSections(x, n) ==
    { <<x.sections[i].name, x.sections[i].data>> : i \in (n + 1)..Len(x.sections) }

\* C11: every step of a link run leaves each section already in the image in its
\* place with its name, flags, virtual address, virtual size, raw address and digest,
\* and changes a byte of its data only inside the byte range of the patch being
\* applied; sections are added only by the final step, one per builder holding the
\* builder's bytes; with no patches the sections of the base image are unchanged.
C11_OnlyPatchRanges ==
    [][ /\ Len(xbe'.sections) >= Len(xbe.sections)
        /\ \A h \in 1..Len(xbe.sections) :
              LET s == xbe.sections[h]
                  t == xbe'.sections[h]
              IN  /\ t.name = s.name /\ t.flags = s.flags /\ t.digest = s.digest
                  /\ t.virtual_address = s.virtual_address
                  /\ t.virtual_size = s.virtual_size
                  /\ t.raw_address = s.raw_address
                  /\ Len(t.data) = Len(s.data)
                  /\ \A k \in 1..Len(s.data) : t.data[k] # s.data[k] => InPatchRange(h, k)
        /\ (config.patches = <<>> =>
               SubSeq(xbe'.sections, 1, Len(xbe.sections)) = xbe.sections)
        /\ IF pc = "finalize"
           THEN /\ Len(xbe'.sections) = Len(xbe.sections) + Cardinality(DOMAIN section_map)
                /\ NewSections(xbe', Len(xbe.sections))
                     = { <<NameBytes(n) \o <<0>>, section_map[n].bytes>> : n \in DOMAIN section_map }
           ELSE Len(xbe'.sections) = Len(xbe.sections)
      ]_vars

\* a link run with a patch and mod files ended: the patch changed bytes of a section of
\* the base image, and sections were appended
C11_Witness ==
    /\ pc = "done"
    /\ Len(config.patches) > 0
    /\ Len(xbe.sections) > 2
    /\ [sections |-> SubSeq(xbe.sections, 1, 2)] \notin BaseImages

(***************************************************************************)
(* The image on its own: get_bytes_mut and add_section                     *)
(***************************************************************************)

\* the most sections an image on its own is grown to
MaxSections == 4

\* a section of a loaded image: its data are the raw_size bytes of the file, its
\* virtual_size is the header's
LoadedSection(name, virtual_address, virtual_size, data, raw_address) ==
    [name |-> name, flags |-> PRELOAD, data |-> data,
     virtual_address |-> virtual_address, virtual_size |-> virtual_size,
     raw_address |-> raw_address, digest |-> <<1, 2, 3>>]

\* the images: none, one or two sections with as many bytes as their virtual size,
\* and images that end with a section of uninitialised storage after its file data
\* (8 bytes of data in a virtual size of 16, 16 bytes in a virtual size of 5000)
XbeImages ==
    { [sections |-> <<>>], [sections |-> <<BaseText>>],
      [sections |-> <<BaseText, BaseData>>], [sections |-> <<BaseData, BaseText>>],
      [sections |-> <<BaseText, BaseData,
                      LoadedSection(<<46, 98, 115, 115, 0>>, 96, 16,
                                    <<1, 2, 3, 4, 5, 6, 7, 8>>, 12288)>>],
      [sections |-> <<BaseText, BaseData,
                      LoadedSection(<<46, 98, 115, 115, 0>>, 96, 5000,
                                    <<1, 2, 3, 4, 5, 6, 7, 8, 9, 10, 11, 12, 13, 14, 15, 16>>,
                                    12288)>>] }

InitXbe ==
    /\ xbe \in XbeImages
    /\ pc = "xbe"
    /\ log = [op |-> "none"]
    /\ result = [kind |-> "none", section |-> 0, from |-> 0, to |-> 0]
    /\ builder = <<>>
    /\ config = [patches |-> <<>>, modfiles |-> <<>>]
    /\ section_map = EmptyMap
    /\ symbol_table = NoSymbols
    /\ cursor = 1
    /\ err = NoError
    /\ image = <<>>
    /\ raw = <<>>
    /\ output = <<>>

\* xbe.get_bytes_mut(start..end)
GetBytesMut ==
    /\ pc = "xbe"
    /\ \E start \in {24, 32, 36, 44, 64, 68, 96, 100, 108}, len \in {0, 4, 5, 8, 16} :
          /\ log' = [op |-> "get_bytes_mut", start |-> start, end |-> start + len]
          /\ result' = get_bytes_mut(xbe, start, start + len)
          /\ pc' = IF result'.kind = "panic" THEN "panicked" ELSE "xbe"
    /\ UNCHANGED <<config, xbe, section_map, symbol_table, cursor, err, image, raw, output,
                   builder>>

\* xbe.add_section(name, flags, data, virtual_address, virtual_size)
AddSection ==
    /\ pc = "xbe"
    /\ Len(xbe.sections) < MaxSections
    /\ \E data \in {<<>>, <<9, 9, 9, 9>>}, virtual_size \in {0, 4, 4100} :
          /\ virtual_size >= Len(data)
          /\ xbe' = add_section(xbe, <<46, 109, 0>>, PRELOAD, data,
                                get_next_virtual_address(xbe), virtual_size)
          /\ log' = [op |-> "add_section", data |-> data, virtual_size |-> virtual_size]
    /\ UNCHANGED <<config, section_map, symbol_table, pc, cursor, err, image, raw, output,
                   builder, result>>

NextXbe == GetBytesMut \/ AddSection

SpecXbe == InitXbe /\ [][NextXbe]_vars

\* the sections of the image whose virtual extent contains [start, end)
Covering(start, end) ==
    { i \in 1..Len(xbe.sections) :
        /\ xbe.sections[i].virtual_address <= start
        /\ end <= xbe.sections[i].virtual_address + xbe.sections[i].virtual_size }

\* C12: get_bytes_mut(start..end) returns none when no section covers the range, and
\* otherwise the slice of end - start bytes at offset start - virtual_address of a
\* covering section; it does not fail in any other way, also when the data of the
\* section are shorter than its virtual_size.
C12_SliceOrNone ==
    (pc \in {"xbe", "panicked"} /\ log.op = "get_bytes_mut") =>
        IF Covering(log.start, log.end) = {}
        THEN result.kind = "none"
        ELSE /\ result.kind = "some"
             /\ result.section \in Covering(log.start, log.end)
             /\ result.from = log.start - xbe.sections[result.section].virtual_address
             /\ result.to - result.from = log.end - log.start
             /\ result.to <= Len(xbe.sections[result.section].data)

\* a slice was returned (this state shows that C12's case is reached)
C12_SliceReturned ==
    /\ pc = "xbe" /\ log.op = "get_bytes_mut"
    /\ result.kind = "some" /\ result.to - result.from = 5

\* the end of the stored data of section i in the file
RawEnd(x, i) == x.sections[i].raw_address + Len(x.sections[i].data)

\* C13: the section add_section appends has
\* raw_address = round_to_next(max over the sections already there of
\* (raw_address + length of the stored data), 0x1000), at or after the end of the
\* stored data of every one of them.
C13_RawAddressAfterData ==
    (pc = "xbe" /\ log.op = "add_section" /\ Len(xbe.sections) > 1) =>
        LET n == Len(xbe.sections)
            top == CHOOSE i \in 1..(n - 1) : \A j \in 1..(n - 1) : RawEnd(xbe, j) <= RawEnd(xbe, i)
        IN  /\ xbe.sections[n].raw_address = round_to_next(RawEnd(xbe, top), 4096)
            /\ \A j \in 1..(n - 1) : RawEnd(xbe, j) <= xbe.sections[n].raw_address

(***************************************************************************)
(* Alignment of the assigned addresses                                     *)
(***************************************************************************)

\* the builders have their addresses
Assigned == pc \in {"symbols", "relocate", "patch", "finalize", "done"}

\* C14: after address assignment every builder's virtual_address is non-zero and a
\* multiple of 32, and in the linked image every appended section has a virtual_address
\* that is a multiple of 32 and a raw_address that is a multiple of 0x1000.
C14_AlignedNonZero ==
    /\ Assigned =>
          \A n \in DOMAIN section_map :
              /\ section_map[n].virtual_address # 0
              /\ section_map[n].virtual_address % 32 = 0
    /\ pc = "done" =>
          \A i \in Appended :
              /\ xbe.sections[i].virtual_address % 32 = 0
              /\ xbe.sections[i].raw_address % 4096 = 0

\* the alignment alone, and the non-zero addresses for a base image that has sections
AlignedAndNonZeroAfterSections ==
    /\ Assigned =>
          \A n \in DOMAIN section_map :
              /\ section_map[n].virtual_address % 32 = 0
              /\ (pc # "done" /\ Len(xbe.sections) > 0) => section_map[n].virtual_address # 0
    /\ pc = "done" =>
          \A i \in Appended :
              /\ xbe.sections[i].virtual_address % 32 = 0
              /\ xbe.sections[i].raw_address % 4096 = 0

(***************************************************************************)
(* The section builder on its own: add_bytes and relative_update_u32       *)
(***************************************************************************)

\* the most relative updates made on a builder on its own
MaxUpdates == 2

InitBuilder ==
    /\ builder = SectionBuilderNew(".mtext")
    /\ log = <<>>
    /\ result = [op |-> "none"]
    /\ pc = "builder"
    /\ cursor = 0
    /\ xbe = <<>>
    /\ config = [patches |-> <<>>, modfiles |-> <<>>]
    /\ section_map = EmptyMap
    /\ symbol_table = NoSymbols
    /\ err = NoError
    /\ image = <<>>
    /\ raw = <<>>
    /\ output = <<>>

\* builder.add_bytes(bytes, filename); log lists the blocks added
AddBytes ==
    /\ pc = "builder"
    /\ \E filename \in {"a.o", "b.o", "c.o"},
          bytes \in { <<250, 255, 255, 255>>, <<1, 2, 3, 4, 5>> } :
          LET r == add_bytes(builder, bytes, filename) IN
          /\ builder' = r.builder
          /\ log' = IF r.panic THEN log ELSE Append(log, [filename |-> filename, bytes |-> bytes])
          /\ result' = [op |-> "add_bytes", filename |-> filename, panic |-> r.panic]
          /\ pc' = IF r.panic THEN "panicked" ELSE pc
    /\ UNCHANGED <<config, xbe, section_map, symbol_table, cursor, err, image, raw, output>>

\* builder.relative_update_u32(filename, file_section_address, value); result keeps the
\* arguments, the builder before the call and what the call returned
RelativeUpdate ==
    /\ pc = "builder"
    /\ cursor < MaxUpdates
    /\ \E filename \in {"a.o", "b.o", "c.o"}, file_section_address \in {0, 1, 4},
          value \in { <<6, 0, 0, 0>>, <<255, 255, 255, 255>> } :
          LET r == relative_update_u32(builder, filename, file_section_address, value) IN
          /\ builder' = r.builder
          /\ result' = [op |-> "relative_update_u32", filename |-> filename,
                        file_section_address |-> file_section_address, value |-> value,
                        before |-> builder, ok |-> r.ok, err |-> r.err]
    /\ cursor' = cursor + 1
    /\ UNCHANGED <<config, xbe, section_map, symbol_table, pc, err, image, raw, output, log>>

NextBuilder == AddBytes \/ RelativeUpdate

SpecBuilder == InitBuilder /\ [][NextBuilder]_vars

\* the blocks of the log, one after the other
RECURSIVE Blocks(_, _)
Blocks(l, n) == IF n = 0 THEN <<>> ELSE Blocks(l, n - 1) \o l[n].bytes

\* C15: after blocks of k distinct files were added in order, file_offset_start of the
\* i-th file is the total length of the blocks before it, the builder's length is the
\* total length, its bytes (until a relative update changes them) are the blocks one
\* after the other, and each file is recorded once; add_bytes fails only for a file
\* that was added before.
C15_OffsetsArePrefixSums ==
    pc \in {"builder", "panicked"} =>
        /\ \A i \in 1..Len(log) :
              /\ log[i].filename \in DOMAIN builder.file_offset_start
              /\ builder.file_offset_start[log[i].filename] = Len(Blocks(log, i - 1))
        /\ Len(builder.bytes) = Len(Blocks(log, Len(log)))
        /\ cursor = 0 => builder.bytes = Blocks(log, Len(log))
        /\ DOMAIN builder.file_offset_start = { log[i].filename : i \in 1..Len(log) }
        /\ Cardinality(DOMAIN builder.file_offset_start) = Len(log)
        /\ (result.op = "add_bytes" /\ result.panic) =>
              result.filename \in { log[i].filename : i \in 1..Len(log) }

\* three blocks of three files were added
C15_Witness ==
    /\ pc = "builder" /\ cursor = 0 /\ Len(log) = 3
    /\ builder.file_offset_start[log[3].filename] = Len(log[1].bytes) + Len(log[2].bytes)
    /\ builder.file_offset_start[log[2].filename] = Len(log[1].bytes)
    /\ Len(log[1].bytes) # Len(log[2].bytes)

\* (a + b) mod 2^32 on little-endian words, computed on 16-bit halves
AddMod2p32(a, b) ==
    LET lo == (a[1] + 256 * a[2]) + (b[1] + 256 * b[2])
        hi == (a[3] + 256 * a[4]) + (b[3] + 256 * b[4]) + (lo \div 65536)
    IN  << lo % 256, (lo \div 256) % 256, hi % 256, (hi \div 256) % 256 >>

\* C16: relative_update_u32(file, offset, v) on a builder that has file_offset_start
\* for the file and holds the four bytes at file_offset_start[file] + offset succeeds,
\* leaves there (prior value + v) mod 2^32 in little-endian order, and changes no other
\* byte, nor the length, nor the offsets; otherwise it returns an error and leaves the
\* builder as it was.
C16_RelativeUpdateLaw ==
    (pc = "builder" /\ result.op = "relative_update_u32") =>
        LET b == result.before
            known == result.filename \in DOMAIN b.file_offset_start
            pos == b.file_offset_start[result.filename] + result.file_section_address
        IN  IF known /\ pos + 4 <= Len(b.bytes)
            THEN /\ result.ok
                 /\ Len(builder.bytes) = Len(b.bytes)
                 /\ ReadLE32(builder.bytes, pos) = AddMod2p32(ReadLE32(b.bytes, pos), result.value)
                 /\ \A i \in 1..Len(b.bytes) :
                       (i <= pos \/ i > pos + 4) => builder.bytes[i] = b.bytes[i]
                 /\ builder.file_offset_start = b.file_offset_start
            ELSE ~result.ok /\ builder = b

\* an update of a file that does not begin the builder succeeded with a carry out of
\* the low bytes
C16_Witness ==
    /\ pc = "builder" /\ result.op = "relative_update_u32" /\ result.ok
    /\ result.before.file_offset_start[result.filename] > 0
    /\ LET pos == result.before.file_offset_start[result.filename] + result.file_section_address
       IN  /\ ReadLE32(result.before.bytes, pos) = <<250, 255, 255, 255>>
           /\ result.value = <<6, 0, 0, 0>>
           /\ ReadLE32(builder.bytes, pos) = <<0, 0, 0, 0>>

\* an update that does not fit the builder, and one of a file without an offset, were
\* refused
UpdateRefused ==
    /\ pc = "builder" /\ result.op = "relative_update_u32" /\ ~result.ok
    /\ result.err.kind = "UnexpectedEof"
    /\ Len(result.before.bytes) > 0

(***************************************************************************)
(* The symbol resolver on single symbols                                   *)
(***************************************************************************)

\* the most symbols resolved one by one
MaxExtracted == 2

\* configurations, with the builders of their mod files placed after the base image
InitSymbols ==
    /\ config \in
          { [patches |-> p, modfiles |-> m] :
              p \in { <<>>,
                      << [patchfile |-> PatchObject(5, 1, FALSE), start_symbol_name |-> "start",
                          end_symbol_name |-> "end", virtual_address |-> 36] >> },
              m \in { <<ModC>>, <<ModC, ModA(IMAGE_REL_I386_REL32)>>, <<ModD>> } }
    /\ xbe = [sections |-> <<BaseText, BaseData>>]
    /\ section_map = assign_addresses(from_data(config.modfiles).map, xbe)
    /\ symbol_table = NoSymbols
    /\ pc = "symbol"
    /\ log = [op |-> "none"]
    /\ result = "ok"
    /\ cursor = 1
    /\ err = NoError
    /\ builder = <<>>
    /\ image = <<>>
    /\ raw = <<>>
    /\ output = <<>>

\* the body of the loop of extract_symbols on one symbol of one object of the
\* configuration; log keeps the object and the symbol
ExtractOne ==
    /\ pc = "symbol"
    /\ cursor <= MaxExtracted
    /\ cursor' = cursor + 1
    /\ \E k \in 1..Len(SymbolObjects(config)) :
       \E name \in {"start", "s"}, value \in {0, 3}, section_number \in {-2, -1, 0, 1, 2},
          storage_class \in {IMAGE_SYM_CLASS_EXTERNAL, IMAGE_SYM_CLASS_STATIC, 6,
                             IMAGE_SYM_CLASS_FUNCTION, IMAGE_SYM_CLASS_FILE},
          typ \in {0, SYM_TYPE_FUNCTION} :
          LET sym == Sym(name, value, section_number, storage_class, typ)
              obj == SymbolObjects(config)[k]
              r == ExtractSymbol(symbol_table, section_map, obj, config, sym)
          IN  /\ symbol_table' = r.table
              /\ log' = [op |-> "extract", obj |-> k, sym |-> sym]
              /\ result' = r.kind
              /\ pc' = CASE r.kind = "ok" -> pc [] r.kind = "err" -> "failed" [] OTHER -> "panicked"
              /\ err' = ExtractError(r, obj)
    /\ UNCHANGED <<config, xbe, section_map, image, raw, output, builder>>

NextSymbols == ExtractOne

SpecSymbols == InitSymbols /\ [][NextSymbols]_vars

\* the object and the symbol of the step being taken
StepObject == SymbolObjects(config)[log'.obj]
StepSymbol == log'.sym

\* the output section a merged input section goes to ("" for every other section)
MergedInto(name) ==
    IF name = ".text" THEN ".mtext" ELSE IF name = ".data" THEN ".mdata"
    ELSE IF name = ".bss" THEN ".mbss" ELSE IF name = ".rdata" THEN ".mrdata" ELSE ""

\* the symbol of the step is defined in a merged section of its object
StepDefined ==
    /\ StepSymbol.section_number \in 1..Len(StepObject.sections)
    /\ MergedInto(StepObject.sections[StepSymbol.section_number].name) # ""

\* the builder of that section; the object contributes to it
StepKey == MergedInto(StepObject.sections[StepSymbol.section_number].name)
StepContributes ==
    /\ StepDefined
    /\ StepKey \in DOMAIN section_map
    /\ StepObject.filename \in DOMAIN section_map[StepKey].file_offset_start

\* C17: for a symbol defined in a merged section of an object that contributes to the
\* section's builder, the table gets file_offset_start[object] + symbol.value +
\* builder.virtual_address when the symbol is EXTERNAL and file_offset_start[object] +
\* builder.virtual_address, whatever symbol.value is, when it is STATIC; a symbol with
\* section number 0, -1 or -2, and a FILE symbol, leaves the table as it was.
C17_RecordedAddress ==
    [][ (pc = "symbol" /\ log'.op = "extract") =>
          /\ (StepContributes /\ StepSymbol.storage_class = IMAGE_SYM_CLASS_EXTERNAL) =>
                /\ StepSymbol.name \in DOMAIN symbol_table'
                /\ symbol_table'[StepSymbol.name] =
                       section_map[StepKey].file_offset_start[StepObject.filename]
                       + StepSymbol.value + section_map[StepKey].virtual_address
          /\ (StepContributes /\ StepSymbol.storage_class = IMAGE_SYM_CLASS_STATIC) =>
                /\ StepSymbol.name \in DOMAIN symbol_table'
                /\ symbol_table'[StepSymbol.name] =
                       section_map[StepKey].file_offset_start[StepObject.filename]
                       + section_map[StepKey].virtual_address
          /\ ( \/ StepSymbol.section_number \in {0, -1, -2}
               \/ StepSymbol.storage_class = IMAGE_SYM_CLASS_FILE ) =>
                symbol_table' = symbol_table
      ]_vars

\* a STATIC symbol with a non-zero value, of an object that does not begin its
\* builder, was recorded at the start of the object's bytes
C17_Witness ==
    /\ pc = "symbol" /\ log.op = "extract"
    /\ log.sym.storage_class = IMAGE_SYM_CLASS_STATIC /\ log.sym.value = 3
    /\ log.sym.section_number = 1
    /\ SymbolObjects(config)[log.obj].filename = "a.o"
    /\ section_map[".mtext"].file_offset_start["a.o"] > 0
    /\ symbol_table[log.sym.name]
           = section_map[".mtext"].file_offset_start["a.o"] + section_map[".mtext"].virtual_address

\* C18: a symbol defined in a merged section whose storage class is not EXTERNAL,
\* STATIC or FILE makes the symbol table fail with the unsupported-storage-class error,
\* and gets no address.
C18_UnsupportedClassFails ==
    [][ ( /\ pc = "symbol" /\ log'.op = "extract" /\ StepDefined
          /\ StepSymbol.storage_class \notin
                 {IMAGE_SYM_CLASS_EXTERNAL, IMAGE_SYM_CLASS_STATIC, IMAGE_SYM_CLASS_FILE} ) =>
          /\ pc' = "failed"
          /\ err'.kind = "storage_class not implemented"
          /\ symbol_table' = symbol_table
      ]_vars

\* the error is raised for the classes the resolver has no arm for, when the section
\* of the symbol has a builder
UnsupportedClassFailsWithBuilder ==
    [][ ( /\ pc = "symbol" /\ log'.op = "extract" /\ StepDefined
          /\ StepKey \in DOMAIN section_map
          /\ StepSymbol.storage_class \notin
                 {IMAGE_SYM_CLASS_EXTERNAL, IMAGE_SYM_CLASS_STATIC, IMAGE_SYM_CLASS_FILE,
                  IMAGE_SYM_CLASS_FUNCTION} ) =>
          /\ pc' = "failed"
          /\ err'.kind = "storage_class not implemented"
          /\ symbol_table' = symbol_table
      ]_vars

(***************************************************************************)
(* Sections that are not merged                                            *)
(***************************************************************************)

\* the files without their sections that are not .text, .data, .bss or .rdata
Effective(files) ==
    [i \in 1..Len(files) |->
        [files[i] EXCEPT !.sections = SelectSeq(@, LAMBDA sec : MergedInto(sec.name) # "")]]

\* the builders of a list of files, placed after the image
Placed(files) == assign_addresses(from_data(files).map, xbe)

\* file f has a non-empty section that goes to builder n
Contributes(f, n) ==
    \E j \in 1..Len(f.sections) :
        MergedInto(f.sections[j].name) = n /\ Len(f.sections[j].data) > 0

\* the total length of the sections of the files that go to builder n
RECURSIVE SectionsLength(_, _, _)
SectionsLength(secs, n, j) ==
    IF j = 0 THEN 0
    ELSE SectionsLength(secs, n, j - 1)
         + (IF MergedInto(secs[j].name) = n THEN Len(secs[j].data) ELSE 0)

RECURSIVE MergedLength(_, _, _)
MergedLength(files, n, i) ==
    IF i = 0 THEN 0
    ELSE MergedLength(files, n, i - 1)
         + SectionsLength(files[i].sections, n, Len(files[i].sections))

\* C19: sections other than .text, .data, .bss and .rdata, and sections of size zero,
\* have no effect on the builders: a file has an offset in a builder exactly when it has
\* a non-empty section of the builder's kind, the builders are the ones the files
\* without their other sections give, and relocation processing skips the relocations
\* of the other sections: it ends as it does without them, with the same bytes.
C19_OtherSectionsIgnored ==
    /\ pc \in {"assign", "symbols", "relocate", "patch", "finalize"} =>
          /\ \A n \in DOMAIN section_map :
                /\ \A i \in 1..Len(config.modfiles) :
                      config.modfiles[i].filename \in DOMAIN section_map[n].file_offset_start
                          <=> Contributes(config.modfiles[i], n)
                /\ Len(section_map[n].bytes) = MergedLength(config.modfiles, n, Len(config.modfiles))
          /\ \A n \in {".mtext", ".mdata", ".mbss", ".mrdata"} :
                n \in DOMAIN section_map
                    <=> \E i \in 1..Len(config.modfiles) : Contributes(config.modfiles[i], n)
          /\ from_data(config.modfiles) = from_data(Effective(config.modfiles))
    /\ pc = "relocate" =>
          process_relocations(Placed(config.modfiles), symbol_table, config.modfiles)
              = process_relocations(Placed(Effective(config.modfiles)), symbol_table,
                                    Effective(config.modfiles))
    /\ (pc = "patch" /\ cursor = 1) =>
          section_map = process_relocations(Placed(Effective(config.modfiles)), symbol_table,
                                            Effective(config.modfiles)).map

\* the relocations of a.o and c.o were processed: a.o has a .drectve section with a
\* relocation that cannot be performed, c.o a .data section of size zero, and no
\* builder took a byte or an offset from either
C19_Witness ==
    /\ pc = "patch" /\ cursor = 1
    /\ { config.modfiles[i].filename : i \in 1..Len(config.modfiles) } = {"a.o", "c.o"}
    /\ DOMAIN section_map = {".mtext"}
    /\ Len(section_map[".mtext"].bytes) = 12

(***************************************************************************)
(* Relocations against unresolved symbols                                  *)
(***************************************************************************)

\* the relocation the driver is about to perform names a symbol of its object that has
\* no entry in the symbol table
ItemUnresolved ==
    /\ RelocCase
    /\ Item.reloc.symbol_table_index + 1 <= Len(ItemFile.symbols)
    /\ ItemSymbol.name \notin DOMAIN symbol_table

\* the relocations of the patch the driver is about to apply stop at an unresolved
\* symbol
PatchUnresolved ==
    /\ PatchCase /\ SymbolsFound
    /\ TheStart.section_number = TheEnd.section_number
    /\ TheStart.section_number \in 1..Len(ThePatch.patchfile.sections)
    /\ TheKey # ""
    /\ ~TheRelocated.ok /\ TheRelocated.err.kind = "SymbolAddress"

\* C20: a relocation in a merged section whose symbol has no entry in the symbol table
\* makes relocation processing fail with an error naming the symbol, nothing is
\* written, and the run ends there: no step follows a failure, so no image is returned.
C20_UnresolvedSymbolFails ==
    [][ /\ pc # "failed"
        /\ ItemUnresolved =>
              /\ pc' = "failed"
              /\ err' = Error("SymbolAddress", ItemSymbol.name, 0)
              /\ section_map' = section_map /\ xbe' = xbe
        /\ PatchUnresolved =>
              /\ pc' = "failed"
              /\ err'.kind = "SymbolAddress"
              /\ err'.symbol \notin DOMAIN symbol_table
              /\ section_map' = section_map /\ xbe' = xbe
      ]_vars

\* the link of b.o without a.o failed at b.o's relocation against "fa", with the
\* builders as address assignment left them
C20_Witness ==
    /\ pc = "failed" /\ err = Error("SymbolAddress", "fa", 0)
    /\ \E i \in 1..Len(config.modfiles) : config.modfiles[i].filename = "b.o"
    /\ \A i \in 1..Len(config.modfiles) : config.modfiles[i].filename # "a.o"
    /\ "fa" \notin DOMAIN symbol_table
    /\ section_map = Placed(config.modfiles)
    /\ \A i \in 1..Len(xbe.sections) : xbe.sections[i].name[2] # 109

(***************************************************************************)
(* The relocation evaluator on single relocations                          *)
(***************************************************************************)

\* r.o: 8 bytes of .text that begin with the addend, and one relocation of type typ at
\* offset at against its symbol number symbol_table_index ("t" or "u")
RelocObject(addend, at, symbol_table_index, typ) ==
    [filename |-> "r.o",
     sections |-> << Sec(".text", addend \o <<195, 144, 144, 144>>,
                         << Rel(at, symbol_table_index, typ) >>) >>,
     symbols |-> << Sym("t", 0, 0, IMAGE_SYM_CLASS_EXTERNAL, SYM_TYPE_FUNCTION),
                    Sym("u", 0, 0, IMAGE_SYM_CLASS_EXTERNAL, SYM_TYPE_FUNCTION) >>]

\* the driver before the relocations of one mod file r.o: the relocation is of a
\* supported type, or IMAGE_REL_I386_ABSOLUTE (0) or IMAGE_REL_I386_DIR32NB (7); its
\* site holds an addend of any sign and size and lies inside the section or (offset 6)
\* across its end; "t" has an address anywhere in the 32-bit range (2^31 and 2^32 - 1
\* held as the i32 of the same bits) and "u" has none; the builder is placed low, just
\* below 2^31 or just below 2^32
InitPerform ==
    /\ \E addend \in { <<0, 0, 0, 0>>, <<252, 255, 255, 255>>, <<255, 255, 255, 127>>,
                       <<0, 0, 0, 128>> },
          at \in {0, 4, 6}, symbol_table_index \in {0, 1},
          typ \in RelocTypes \cup {0, 7},
          virtual_address \in {0, 96, 2147483616, -32} :
          /\ config = [patches |-> <<>>,
                       modfiles |-> << RelocObject(addend, at, symbol_table_index, typ) >>]
          /\ section_map = [from_data(config.modfiles).map EXCEPT
                                ![".mtext"].virtual_address = virtual_address]
    /\ symbol_table \in { "t" :> a : a \in {16, 100, 2147483647, -2147483647 - 1, -1} }
    /\ xbe = [sections |-> <<BaseText, BaseData>>]
    /\ pc = "relocate"
    /\ cursor = 1
    /\ err = NoError
    /\ image = <<>>
    /\ raw = <<>>
    /\ output = <<>>
    /\ builder = <<>>
    /\ log = <<>>
    /\ result = <<>>

SpecPerform == InitPerform /\ [][Perform]_vars

\* the relocation the driver is about to perform has a type other than DIR32 and REL32
ItemUnsupported == RelocCase /\ Item.reloc.typ \notin {IMAGE_REL_I386_DIR32, IMAGE_REL_I386_REL32}

\* C21: a relocation in a merged section whose type is neither IMAGE_REL_I386_DIR32 nor
\* IMAGE_REL_I386_REL32 makes relocation processing fail with an error that names the
\* unsupported type and the symbol, and changes no byte of the builder.
C21_UnsupportedTypeFails ==
    [][ ItemUnsupported =>
            /\ pc' = "failed"
            /\ err' = Error("RelocationTypeNotSupported", ItemSymbol.name, Item.reloc.typ)
            /\ section_map' = section_map
      ]_vars

\* C21 as the code has it: perform looks the symbol up before it looks at the type, so
\* a relocation of another type fails with the error naming the type and the symbol
\* when its symbol has an entry in the symbol table, and with the error naming the
\* symbol alone when it has none; in both cases no byte of a builder is changed.
C21_UnsupportedTypeOfResolvedSymbol ==
    [][ (ItemUnsupported /\ Item.reloc.symbol_table_index + 1 <= Len(ItemFile.symbols)) =>
            /\ pc' = "failed"
            /\ section_map' = section_map
            /\ err' = IF ItemSymbol.name \in DOMAIN symbol_table
                      THEN Error("RelocationTypeNotSupported", ItemSymbol.name, Item.reloc.typ)
                      ELSE Error("SymbolAddress", ItemSymbol.name, 0)
      ]_vars

\* the relocation of type 7 of r.o against "t", which has an address, was refused, and
\* the builder holds the bytes of r.o as they were
C21_Witness ==
    /\ pc = "failed" /\ err = Error("RelocationTypeNotSupported", "t", 7)
    /\ config.modfiles[1].filename = "r.o"
    /\ "t" \in DOMAIN symbol_table
    /\ section_map[".mtext"].bytes = config.modfiles[1].sections[1].data

\* the difference of two words modulo 2^32
SubMod2p32(a, b) ==
    AddMod2p32(AddMod2p32(a, [i \in 1..4 |-> 255 - b[i]]), <<1, 0, 0, 0>>)

\* S, P and A of the relocation the driver is about to perform, as words: the address
\* of its symbol, the address after its site, and the word its site holds
ItemS == ToLE32(symbol_table[ItemSymbol.name])
ItemP == AddMod2p32(ToLE32(section_map[Item.key].virtual_address), ToLE32(ItemF + ItemR + 4))
ItemA == ReadLE32(section_map[Item.key].bytes, ItemF + ItemR)

\* what the relocation has to leave at its site: S + A, or (S - P) + A, modulo 2^32
ItemValue ==
    IF Item.reloc.typ = IMAGE_REL_I386_DIR32 THEN AddMod2p32(ItemS, ItemA)
    ELSE AddMod2p32(SubMod2p32(ItemS, ItemP), ItemA)

\* C22: the arithmetic of the relocation evaluator is modulo 2^32: for every S, P and
\* A a DIR32 relocation leaves S + A and a REL32 relocation (S - P) + A, wrapped to 32
\* bits, at its site, and the evaluator neither fails nor aborts because of an overflow.
C22_WrappingArithmetic ==
    [][ (RelocCase /\ ItemResolved /\ Item.reloc.typ \in RelocTypes /\ ItemF = 0) =>
            /\ pc' = "relocate"
            /\ ReadLE32(section_map'[Item.key].bytes, ItemF + ItemR) = ItemValue
      ]_vars

\* the wrapped value is what a relocation leaves whenever the evaluator does not abort,
\* and it aborts only where PerformOverflows says so
WrappedUnlessAborted ==
    [][ (RelocCase /\ ItemResolved /\ Item.reloc.typ \in RelocTypes /\ ItemF = 0) =>
            /\ pc' \in {"relocate", "panicked"}
            /\ pc' = "relocate" =>
                  ReadLE32(section_map'[Item.key].bytes, ItemF + ItemR) = ItemValue
            /\ pc' = "panicked" =>
                  /\ Item.reloc.typ = IMAGE_REL_I386_REL32
                  /\ section_map' = section_map
                  /\ (ItemS[4] >= 128) # (ItemP[4] >= 128)
      ]_vars

\* a REL32 relocation against a symbol at 2^31 went through with the wrapped value
WrappedReached ==
    /\ pc = "relocate" /\ cursor = 2
    /\ symbol_table["t"] < 0
    /\ Done.reloc.typ = IMAGE_REL_I386_REL32
    /\ section_map[".mtext"].virtual_address = 96

(***************************************************************************)
(* The sections finalize appends                                           *)
(***************************************************************************)

\* section i of x is the section of builder n: its name followed by one NUL byte, its
\* bytes, their length as virtual_size, its address, and the flags of its name
\* (PRELOAD 2, WRITABLE 1, EXECUTABLE 4)
SectionOf(x, i, n) ==
    /\ x.sections[i].name = NameBytes(n) \o <<0>>
    /\ x.sections[i].name[Len(x.sections[i].name)] = 0
    /\ Len(x.sections[i].name) = Len(NameBytes(n)) + 1
    /\ x.sections[i].data = section_map[n].bytes
    /\ x.sections[i].virtual_size = Len(section_map[n].bytes)
    /\ x.sections[i].virtual_address = section_map[n].virtual_address
    /\ x.sections[i].flags = CASE n = ".mtext" -> 6
                               [] n \in {".mdata", ".mbss"} -> 3
                               [] OTHER -> 2

\* C25: finalize appends exactly one section per builder of the map, in ascending
\* virtual_address order, each with the builder's name followed by one NUL byte, the
\* builder's bytes, virtual_size equal to their length, and flags PRELOAD|EXECUTABLE
\* for .mtext, PRELOAD|WRITABLE for .mdata and .mbss, PRELOAD alone for any other name.
C25_FinalizeAppends ==
    [][ pc = "finalize" =>
          LET old == Len(xbe.sections)
              new == (old + 1)..Len(xbe'.sections)
          IN  /\ Len(xbe'.sections) = old + Cardinality(DOMAIN section_map)
              /\ SubSeq(xbe'.sections, 1, old) = xbe.sections
              /\ \A n \in DOMAIN section_map :
                    Cardinality({ i \in new : SectionOf(xbe', i, n) }) = 1
              /\ \A i, j \in new :
                    i < j => xbe'.sections[i].virtual_address < xbe'.sections[j].virtual_address
      ]_vars

\* the link of d.o with an object that has .text ended: .mdata, .mrdata and .mtext
\* were appended in this order, with their flags
C25_Witness ==
    /\ pc = "done"
    /\ DOMAIN section_map = {".mdata", ".mrdata", ".mtext"}
    /\ LET n == Len(xbe.sections) IN
       /\ n >= 3
       /\ << xbe.sections[n - 2].flags, xbe.sections[n - 1].flags, xbe.sections[n].flags >>
              = << 3, 2, 6 >>
       /\ xbe.sections[n - 1].name = << 46, 109, 114, 100, 97, 116, 97, 0 >>
       /\ xbe.sections[n - 1].data = << 37, 100 >>

(***************************************************************************)
(* Link runs with patch objects of every shape                             *)
(***************************************************************************)

\* q.o: a patch object of 8 bytes of .text: `jmp rel32` with its opcode at offset
\* reloc_at - 1 and the stored addend -4 at offset reloc_at, a REL32 relocation
\* against "fa" there, and nop bytes around; "start" and "end" have the given values
\* and the given section_number (1: .text, 0: undefined, -1: absolute, -2: debug)
PatchUnit(start_value, end_value, section_number, reloc_at) ==
    [filename |-> "q.o",
     sections |-> << Sec(".text",
                         [i \in 1..8 |-> CASE i = reloc_at -> 233
                                           [] i = reloc_at + 1 -> 252
                                           [] i \in (reloc_at + 2)..(reloc_at + 4) -> 255
                                           [] OTHER -> 144],
                         << Rel(reloc_at, 2, IMAGE_REL_I386_REL32) >>) >>,
     symbols |-> << Sym("start", start_value, section_number, IMAGE_SYM_CLASS_EXTERNAL,
                        SYM_TYPE_FUNCTION),
                    Sym("end", end_value, section_number, IMAGE_SYM_CLASS_EXTERNAL,
                        SYM_TYPE_FUNCTION),
                    Sym("fa", 0, 0, IMAGE_SYM_CLASS_EXTERNAL, SYM_TYPE_FUNCTION) >>]

\* a link of the base image with one patch of any shape, or with two patches that
\* lie in their section, at addresses two bytes apart or equal; the mod files define
\* "fa" (a.o), leave it unresolved (none), need it themselves (b.o), or define "fa"
\* and "start" and build three sections (a.o, c.o, d.o)
InitPatches ==
    /\ config \in
         LET any == { [patchfile |-> PatchUnit(sv, ev, sn, ra), start_symbol_name |-> "start",
                       end_symbol_name |-> "end", virtual_address |-> va] :
                         sv \in {0, 2}, ev \in {1, 5, 7, 9}, sn \in {1, 0, -1, -2},
                         ra \in {1, 3}, va \in {36, 38} }
             fit == { p \in any : /\ p.patchfile.symbols[1].section_number = 1
                                  /\ p.patchfile.symbols[2].value \in {5, 7} }
         IN  { [patches |-> l, modfiles |-> m] :
                 l \in { <<p>> : p \in any } \cup { <<p, q>> : p \in fit, q \in fit },
                 m \in { <<>>, << ModA(IMAGE_REL_I386_REL32) >>,
                         << ModB(IMAGE_REL_I386_REL32) >>,
                         << ModA(IMAGE_REL_I386_REL32), ModC, ModD >> } }
    /\ xbe = [sections |-> <<BaseText, BaseData>>]
    /\ section_map = EmptyMap
    /\ symbol_table = NoSymbols
    /\ pc = "combine"
    /\ cursor = 1
    /\ err = NoError
    /\ image = <<>>
    /\ raw = <<>>
    /\ output = <<>>
    /\ builder = <<>>
    /\ log = <<>>
    /\ result = <<>>

SpecPatches == InitPatches /\ [][Next]_vars

\* C30: Patch::apply never aborts: it returns success or an error value, also when the
\* start and end symbols are not defined in a section (section_number 0, -1, -2),
\* when end.value is smaller than start.value, when end.value exceeds the length of
\* the patch's section, and when the patch is longer than five bytes.
C30_ApplyNeverAborts ==
    [][ (pc = "patch" /\ cursor <= Len(config.patches)) => pc' \in {"patch", "failed"} ]_vars

\* the two symbols of the patch that was applied last
LastStart == LastPatch.patchfile.symbols[1]
LastEnd == LastPatch.patchfile.symbols[2]

\* an abort of Patch::apply happens in the four cases only
AbortsInTheFourCases ==
    (pc = "panicked" /\ cursor > 1 /\ err.kind # "add_bytes twice") =>
        \/ err.kind = "unwrap on None" /\ LastStart.section_number \in {0, -1, -2}
        \/ err.kind = "slice out of range"
              /\ (LastEnd.value < LastStart.value \/ LastEnd.value > 8)
        \/ err.kind = "Failed to apply patch" /\ LastEnd.value - LastStart.value > 5

\* each of the four cases is reached
AbortUndefinedReached ==
    pc = "panicked" /\ err.kind = "unwrap on None" /\ LastStart.section_number = 0
AbortAbsoluteReached ==
    pc = "panicked" /\ err.kind = "unwrap on None" /\ LastStart.section_number = -1
AbortEndBeforeStartReached ==
    pc = "panicked" /\ err.kind = "slice out of range" /\ LastEnd.value < LastStart.value
AbortEndBeyondSectionReached ==
    pc = "panicked" /\ err.kind = "slice out of range" /\ LastEnd.value > 8
AbortLongPatchReached ==
    pc = "panicked" /\ err.kind = "Failed to apply patch"

\* the REL32 relocations of the patch's section, and the steps that apply the patch
TheRelocs ==
    SelectSeq(ThePatch.patchfile.sections[TheStart.section_number].relocs,
              LAMBDA r : r.typ = IMAGE_REL_I386_REL32)
Applied == PatchCase /\ pc' = "patch" /\ cursor' = cursor + 1

\* after the patch is applied, the site of relocation k, which lands at virtual
\* address X of the image, holds (S - (X + 4)) + A modulo 2^32, A being the addend the
\* patch object stores at the site
SiteCorrectAt(k, X) ==
    LET r == TheRelocs[k]
        S == ToLE32(symbol_table[ThePatch.patchfile.symbols[r.symbol_table_index + 1].name])
        A == ReadLE32(ThePatch.patchfile.sections[TheStart.section_number].data,
                      r.virtual_address)
    IN  \A h \in 1..Len(xbe'.sections) :
            ( /\ xbe'.sections[h].virtual_address <= X
              /\ X + 4 <= xbe'.sections[h].virtual_address + xbe'.sections[h].virtual_size ) =>
              SubSeq(xbe'.sections[h].data, X - xbe'.sections[h].virtual_address + 1,
                     X - xbe'.sections[h].virtual_address + 4)
                  = AddMod2p32(SubMod2p32(S, ToLE32(X + 4)), A)

\* C29: after a patch is applied, every REL32 site inside the bytes written into the
\* image holds the displacement that is correct for the address X where the site lands,
\* (S - (X + 4) + prior addend) mod 2^32, for every start.value, start.value > 0 included.
C29_SiteCorrectWhereItLands ==
    [][ Applied =>
          \A k \in 1..Len(TheRelocs) :
            ( /\ TheStart.value <= TheRelocs[k].virtual_address
              /\ TheRelocs[k].virtual_address + 4 <= TheEnd.value ) =>
              SiteCorrectAt(k, ThePatch.virtual_address
                                   + (TheRelocs[k].virtual_address - TheStart.value))
      ]_vars

\* the sites are correct when the patch begins at the start of its section
SiteCorrectWhenStartIsZero ==
    [][ (Applied /\ TheStart.value = 0) =>
          \A k \in 1..Len(TheRelocs) :
            TheRelocs[k].virtual_address + 4 <= TheEnd.value =>
              SiteCorrectAt(k, ThePatch.virtual_address + TheRelocs[k].virtual_address)
      ]_vars

\* a patch that begins at its section's start was applied, its jump written whole
SiteAtStartZeroReached ==
    /\ pc = "patch" /\ cursor > 1
    /\ LastStart.value = 0 /\ LastEnd.value = 5
    /\ LastPatch.patchfile.sections[1].relocs[1].virtual_address = 1
    /\ "fa" \in DOMAIN symbol_table

\* a patch that begins two bytes into its section was applied, its jump written whole
SiteAfterStartReached ==
    /\ pc = "patch" /\ cursor > 1
    /\ LastStart.value = 2 /\ LastEnd.value = 7
    /\ LastPatch.patchfile.sections[1].relocs[1].virtual_address = 3
    /\ "fa" \in DOMAIN symbol_table

(***************************************************************************)
(* The order of the phases                                                 *)
(***************************************************************************)

\* the phases a step of the driver may lead to: the same phase (its next item), the
\* next phase, or the end of the run
PhaseAfter(p) ==
    CASE p = "combine"  -> {"assign", "failed", "panicked"}
      [] p = "assign"   -> {"symbols"}
      [] p = "symbols"  -> {"symbols", "relocate", "failed", "panicked"}
      [] p = "relocate" -> {"relocate", "patch", "failed", "panicked"}
      [] p = "patch"    -> {"patch", "finalize", "failed", "panicked"}
      [] p = "finalize" -> {"done"}
      [] OTHER -> {}

\* byte-wise order of the section names
NameBefore(a, b) ==
    \E i, j \in 1..4 :
        /\ i < j
        /\ << ".mbss", ".mdata", ".mrdata", ".mtext" >>[i] = a
        /\ << ".mbss", ".mdata", ".mrdata", ".mtext" >>[j] = b

\* the bytes of all sections of an image outside the virtual range [from, to)
Outside(x, from, to) ==
    [h \in 1..Len(x.sections) |->
        [i \in { i \in 1..Len(x.sections[h].data) :
                   \/ x.sections[h].virtual_address + (i - 1) < from
                   \/ x.sections[h].virtual_address + (i - 1) >= to } |->
            x.sections[h].data[i]]]

\* C26: the driver runs its phases in one fixed order: combine, assign addresses in
\* ascending order of section name, build the symbol table (patch objects before mod
\* objects), relocate the mods, apply the patches one by one in configuration order
\* (where two patches overlap the later patch's bytes remain), append the new sections
\* in ascending order of section name. The first phase that fails ends the run: no
\* later phase executes and no image is returned.
C26_PhaseOrder ==
    [][ /\ pc' \in PhaseAfter(pc)
        /\ pc = "combine" => symbol_table = NoSymbols /\ xbe' = xbe
        /\ pc = "assign" =>
              \A a, b \in DOMAIN section_map' :
                  NameBefore(a, b) =>
                      section_map'[a].virtual_address < section_map'[b].virtual_address
        /\ (pc = "symbols" /\ pc' = "relocate") =>
              \A n \in PatchDefined :
                  ModAddresses(n) # {} =>
                      n \in DOMAIN symbol_table /\ symbol_table[n] \in ModAddresses(n)
        /\ pc \in {"symbols", "relocate"} => xbe' = xbe
        /\ pc = "patch" => section_map' = section_map /\ symbol_table' = symbol_table
        /\ (pc = "patch" /\ pc' = "patch") =>
              /\ cursor' = cursor + 1
              /\ Len(xbe'.sections) = Len(xbe.sections)
              /\ Outside(xbe', ThePatch.virtual_address,
                         ThePatch.virtual_address + (TheEnd.value - TheStart.value))
                   = Outside(xbe, ThePatch.virtual_address,
                             ThePatch.virtual_address + (TheEnd.value - TheStart.value))
              /\ \A h \in 1..Len(xbe.sections) :
                    Covers(h, ThePatch.virtual_address,
                           ThePatch.virtual_address + (TheEnd.value - TheStart.value)) =>
                      SubSeq(xbe'.sections[h].data,
                             ThePatch.virtual_address - xbe.sections[h].virtual_address + 1,
                             ThePatch.virtual_address - xbe.sections[h].virtual_address
                                 + (TheEnd.value - TheStart.value))
                        = SubSeq(TheRelocated.map[TheKey].bytes,
                                 TheStart.value + 1, TheEnd.value)
        /\ (pc = "patch" /\ pc' = "finalize") => cursor > Len(config.patches) /\ xbe' = xbe
        /\ pc = "finalize" =>
              \A i, j \in (Len(xbe.sections) + 1)..Len(xbe'.sections) :
                  i < j =>
                    \E a, b \in DOMAIN section_map :
                        /\ NameBefore(a, b)
                        /\ xbe'.sections[i].name = NameBytes(a) \o <<0>>
                        /\ xbe'.sections[j].name = NameBytes(b) \o <<0>>
      ]_vars

\* a run ended well after two overlapping patches were applied, the second two bytes
\* after the first: the opcode of the first is followed by one byte of its displacement
\* and by the opcode and the displacement of the second; three sections were appended
C26_Witness ==
    /\ pc = "done"
    /\ Len(config.patches) = 2
    /\ config.patches[1].virtual_address = 36
    /\ config.patches[2].virtual_address = 38
    /\ config.patches[1].patchfile.sections[1].relocs[1].virtual_address = 1
    /\ config.patches[2].patchfile.sections[1].relocs[1].virtual_address = 1
    /\ config.patches[1].patchfile.symbols[1].value = 0
    /\ config.patches[2].patchfile.symbols[1].value = 0
    /\ Len(xbe.sections) = 5
    /\ xbe.sections[1].data[5] = 233
    /\ xbe.sections[1].data[7] = 233
    /\ xbe.sections[1].data[6] # xbe.sections[1].data[8]

\* runs end in the relocation phase (b.o needs "fa", which nothing defines) and in
\* the patch phase (the patch needs "fa"), the image left without new sections
EndsInRelocationReached ==
    /\ pc = "failed" /\ Len(config.modfiles) = 1 /\ config.modfiles[1].filename = "b.o"
    /\ err.kind = "SymbolAddress" /\ Len(xbe.sections) = 2
EndsInPatchReached ==
    /\ pc = "failed" /\ config.modfiles = <<>> /\ cursor = 2
    /\ err.kind = "SymbolAddress" /\ Len(xbe.sections) = 2 /\ Len(config.patches) = 2

(***************************************************************************)
(* Where the serialized sections lie                                       *)
(***************************************************************************)

\* an image in memory, as Xbe::new leaves it: no section, one or two sections of 8
\* bytes each at the raw addresses 0x1000 and 0x2000, the virtual size of the last
\* one being 8 or (uninitialised storage after the file data) 5000. Sections are then
\* added to it, and it is serialized.
InitLayout ==
    /\ xbe \in { VanillaXbe(0, 6, 69632) } \cup
               { [VanillaXbe(n, 6, 69632) EXCEPT !.sections[n].virtual_size = vs] :
                    n \in 1..2, vs \in {8, 5000} }
    /\ pc = "xbe"
    /\ log = [op |-> "none"]
    /\ result = [kind |-> "none", section |-> 0, from |-> 0, to |-> 0]
    /\ builder = <<>>
    /\ config = [patches |-> <<>>, modfiles |-> <<>>]
    /\ section_map = EmptyMap
    /\ symbol_table = NoSymbols
    /\ cursor = 1
    /\ err = NoError
    /\ image = <<>>
    /\ raw = <<>>
    /\ output = <<>>

SpecLayout == InitLayout /\ [][AddSection \/ ConvertToRaw \/ Serialize]_vars

\* the raw_address and the raw_size that the header of section i holds in a file
RawAddressAt(bytes, i) == U32At(bytes, 388 + 492 + 56 * (i - 1) + 12)
RawSizeAt(bytes, i) == U32At(bytes, 388 + 492 + 56 * (i - 1) + 16)

\* where the sections of the serialized image lie, by its section headers
SectionsAtRawAddress ==
        /\ \A i \in 1..Len(xbe.sections) :
              /\ RawSizeAt(output, i) = Len(xbe.sections[i].data)
              /\ Slice(output, RawAddressAt(output, i), RawSizeAt(output, i))
                     = xbe.sections[i].data
              /\ RawSizeAt(output, i) > 0 => RawAddressAt(output, i) >= U32At(output, 264)
        /\ \A i, j \in 1..Len(xbe.sections) :
              i # j =>
                \/ RawAddressAt(output, i) + RawSizeAt(output, i) <= RawAddressAt(output, j)
                \/ RawAddressAt(output, j) + RawSizeAt(output, j) <= RawAddressAt(output, i)

\* C27: in every serialized image, one produced after add_section calls included, the
\* data of each section begin at the file offset that the section's header gives as
\* raw_address, and the raw ranges of distinct sections overlap neither each other nor
\* the header region.
C27_SectionsAtRawAddress ==
    pc = "bytes" => SectionsAtRawAddress

\* the sections lie where their headers say when the image had a section to begin
\* with and every section but the last has data as long as its virtual size
LayoutOfFullSections ==
    ( /\ pc = "bytes"
      /\ Len(xbe.sections) > 0
      /\ xbe.sections[1].raw_address > 0
      /\ \A i \in 1..(Len(xbe.sections) - 1) :
            /\ xbe.sections[i].virtual_size = Len(xbe.sections[i].data)
            /\ Len(xbe.sections[i].data) > 0 ) => SectionsAtRawAddress

\* an image whose first section was added to an image without sections is serialized
NoSectionToBeginWithReached ==
    pc = "bytes" /\ Len(xbe.sections) > 0 /\ xbe.sections[1].raw_address = 0

\* an image is serialized in which a section was added after a section of 8 bytes of
\* data and a virtual size of 5000, two pages after it
AfterLargeVirtualSizeReached ==
    /\ pc = "bytes" /\ Len(xbe.sections) = 2
    /\ xbe.sections[1].virtual_size = 5000 /\ Len(xbe.sections[1].data) = 8
    /\ xbe.sections[2].raw_address = xbe.sections[1].raw_address + 8192
    /\ Len(xbe.sections[2].data) = 4
    /\ Slice(output, xbe.sections[1].raw_address + 4096, 4) = xbe.sections[2].data

(***************************************************************************)
(* The iteration order of the hash maps                                    *)
(***************************************************************************)

\* the orders in which iterating a HashMap may yield the builders of a section map
IterationOrders(map) ==
    { o \in [1..Cardinality(DOMAIN map) -> DOMAIN map] :
        \A i, j \in 1..Cardinality(DOMAIN map) : o[i] = o[j] => i = j }

\* the iteration left as the hash map yields it
StableSorted_Unsorted(order, key) == order

\* sorted_by on an iteration: a stable sort by a key, so that elements of equal keys
\* stay in the order the iteration yields them
RECURSIVE StableSorted(_, _)
StableSorted(order, key) ==
    IF order = <<>> THEN <<>>
    ELSE LET rest == StableSorted(SubSeq(order, 1, Len(order) - 1), key)
             e == order[Len(order)]
             k == Cardinality({ i \in 1..Len(rest) : key[rest[i]] <= key[e] })
         IN  SubSeq(rest, 1, k) \o <<e>> \o SubSeq(rest, k + 1, Len(rest))

\* C28: the link is deterministic: two runs on the same base image and the same
\* configuration yield the same sections (names, addresses, flags, bytes) and so the
\* same serialized output, whatever order the hash maps are iterated in: the addresses
\* assigned and the sections appended are the same for every iteration order.
C28_Deterministic ==
    [][ /\ pc = "assign" =>
              \A order \in IterationOrders(section_map) :
                  section_map' =
                      AssignLoop(section_map,
                                 StableSorted(order,
                                     [n \in DOMAIN section_map |->
                                         CHOOSE i \in 1..Len(OutputNames) : OutputNames[i] = n]),
                                 1, get_next_virtual_address(xbe))
        /\ pc = "finalize" =>
              \A order \in IterationOrders(section_map) :
                  xbe' =
                      FinalizeLoop(section_map,
                                   StableSorted(order,
                                       [n \in DOMAIN section_map |->
                                           section_map[n].virtual_address]),
                                   1, xbe)
      ]_vars

\* a link that built three sections, which a hash map yields in six orders, ended
\* with the three sections appended to an image that lists .data before .text
C28_Witness ==
    /\ pc = "done"
    /\ Cardinality(DOMAIN section_map) = 3
    /\ Len(xbe.sections) = 5
    /\ xbe.sections[1].name = << 46, 100, 97, 116, 97, 0 >>
    /\ \A i, j \in 3..5 : i < j => xbe.sections[i].virtual_address < xbe.sections[j].virtual_address

====
